---- MODULE Spec2Model ----
(***************************************************************************)
(* Projection and performance-analytics engine of the tracker application  *)
(* (frontend/src/utils/calculations.ts and analytics.ts).                  *)
(*                                                                         *)
(* The engine is a library of functions.  Each function is an operator     *)
(* translated from its source; a specification draws the arguments of one  *)
(* call from bounded sets (pc = "call"), and its action applies the        *)
(* function and stores what it returns (pc = "done").                      *)
(* storage is the list of trackers that api/storage keeps in              *)
(* localStorage; history records the calls observed so far where a         *)
(* property compares several calls; stream is the state of the             *)
(* useIBKRStream hook and router that of the backend IBKR router.          *)
(*                                                                         *)
(* Numbers: a JavaScript number is modelled as an exact rational <<n, d>>  *)
(* with d > 0 in lowest terms; <<1, 0>>, <<-1, 0>> and <<0, 0>> stand for  *)
(* +Infinity, -Infinity and NaN, which a division by zero produces.        *)
(* Dates: a date is a day number; day 0 is Thursday 2025-10-09, the first  *)
(* day used by calculations.test.ts.                                       *)
(***************************************************************************)
EXTENDS Integers, Sequences, FiniteSets, TLC

VARIABLES pc, call, ret, storage, history, stream, router

vars == <<pc, call, ret, storage, history, stream, router>>

----------------------------------------------------------------------------
(* Bounds of the model *)

\* dates range over 0 .. MaxDay
MaxDay == 5
\* longest cash-flow list
MaxFlows == 2
\* longest list of base dates / actual data points
MaxPoints == 3

Dates == 0 .. MaxDay

----------------------------------------------------------------------------
(* Numbers *)

Abs(n) == IF n < 0 THEN -n ELSE n

Sign(n) == IF n < 0 THEN -1 ELSE IF n > 0 THEN 1 ELSE 0

RECURSIVE Gcd(_, _)
Gcd(a, b) == IF b = 0 THEN a ELSE Gcd(b, a % b)

\* the number n/d; d = 0 gives an infinity or NaN
Q(n, d) ==
  IF d = 0 THEN <<Sign(n), 0>>
  ELSE LET g == Gcd(Abs(n), Abs(d))
           s == Sign(d)
       IN  <<(s * n) \div g, (s * d) \div g>>

Num(n) == <<n, 1>>

IsNaN(a) == a = <<0, 0>>

IsFinite(a) == a[2] # 0

QNeg(a) == <<-a[1], a[2]>>

QAdd(a, b) ==
  IF a[2] = 0 \/ b[2] = 0
  THEN IF IsNaN(a) \/ IsNaN(b) THEN <<0, 0>>
       ELSE IF a[2] = 0 /\ b[2] = 0
            THEN (IF a[1] = b[1] THEN a ELSE <<0, 0>>)
            ELSE IF a[2] = 0 THEN a ELSE b
  ELSE LET g == Gcd(a[2], b[2])
           l == (a[2] \div g) * b[2]
       IN  Q(a[1] * (l \div a[2]) + b[1] * (l \div b[2]), l)

QSub(a, b) == QAdd(a, QNeg(b))

QMul(a, b) ==
  IF a[2] = 0 \/ b[2] = 0
  THEN <<Sign(a[1]) * Sign(b[1]), 0>>
  ELSE LET g1 == Gcd(Abs(a[1]), b[2])
           g2 == Gcd(Abs(b[1]), a[2])
       IN  IF a[1] = 0 \/ b[1] = 0 THEN <<0, 1>>
           ELSE <<(a[1] \div g1) * (b[1] \div g2), (a[2] \div g2) * (b[2] \div g1)>>

\* IEEE division: x/0 is an infinity, 0/0 is NaN
QDiv(a, b) ==
  IF b[2] = 0
  THEN (IF a[2] = 0 THEN <<0, 0>> ELSE <<0, 1>>)
  ELSE IF b[1] = 0 THEN <<Sign(a[1]), 0>>
  ELSE IF a[2] = 0 THEN <<a[1] * Sign(b[1]), 0>>
  ELSE QMul(a, Q(b[2], b[1]))

\* a < b, a <= b; every comparison with NaN is false
QLt(a, b) ==
  /\ ~IsNaN(a)
  /\ ~IsNaN(b)
  /\ IF a[2] = 0 /\ b[2] = 0 THEN a[1] < b[1] ELSE a[1] * b[2] < b[1] * a[2]

QLe(a, b) == ~IsNaN(a) /\ ~IsNaN(b) /\ (a = b \/ QLt(a, b))

QGt(a, b) == QLt(b, a)

QGe(a, b) == QLe(b, a)

\* Math.pow(a, k) for an integer k >= 0 (Math.pow(x, 0) is 1 for every x)
RECURSIVE QPow(_, _)
QPow(a, k) == IF k = 0 THEN <<1, 1>> ELSE QMul(a, QPow(a, k - 1))

QMax(a, b) == IF QGe(a, b) THEN a ELSE b

----------------------------------------------------------------------------
(* Business-day calendar: calculations.ts *)

\* Date.getDay(): 0 is Sunday ... 6 is Saturday; day 0 is a Thursday
getDay(date) == (date + 4) % 7

\* date-fns isWeekend
isWeekend(date) == getDay(date) \in {0, 6}

isBusinessDay(date) == ~isWeekend(date)

\* the while loop of addBusinessDays
RECURSIVE addBusinessDaysLoop(_, _, _)
addBusinessDaysLoop(result, daysAdded, businessDays) ==
  IF daysAdded < businessDays
  THEN LET next == result + 1
       IN  addBusinessDaysLoop(next,
                               IF isBusinessDay(next) THEN daysAdded + 1 ELSE daysAdded,
                               businessDays)
  ELSE result

\* a bug: the start date itself counts as the first business day added
addBusinessDaysFromStart(date, businessDays) ==
  addBusinessDaysLoop(date, IF isBusinessDay(date) /\ businessDays > 0 THEN 1 ELSE 0, businessDays)

addBusinessDays(date, businessDays) == addBusinessDaysLoop(date, 0, businessDays)

\* the while loop of countBusinessDays
RECURSIVE countBusinessDaysLoop(_, _, _)
countBusinessDaysLoop(current, endDate, count) ==
  IF current <= endDate
  THEN countBusinessDaysLoop(current + 1, endDate,
                             IF isBusinessDay(current) THEN count + 1 ELSE count)
  ELSE count

countBusinessDays(startDate, endDate) == countBusinessDaysLoop(startDate + 1, endDate, 0)

----------------------------------------------------------------------------
(* Cash flows *)

\* amount is the magnitude CashFlowManager stores (parseFloat(amount) > 0)
CashFlowAmounts == {100}

CashFlowTypes == {"deposit", "withdrawal"}

CashFlow == [date : Dates, amount : CashFlowAmounts, type : CashFlowTypes]

\* storage.addCashFlow keeps a tracker's cash flows sorted by date
SortedByDate(s) == \A i \in 1 .. Len(s) - 1 : s[i].date <= s[i + 1].date

SeqsUpTo(S, n) == UNION {[1 .. k -> S] : k \in 0 .. n}

CashFlowLists == {s \in SeqsUpTo(CashFlow, MaxFlows) : SortedByDate(s)}

----------------------------------------------------------------------------
(* calculateProjection: the cash-flow-aware compositor *)

\* a sign bug: every flow counted as a deposit
signedAmountIgnoringType(cf) == Num(cf.amount)

\* cf.type === 'deposit' ? cf.amount : -cf.amount
signedAmount(cf) == IF cf.type = "deposit" THEN Num(cf.amount) ELSE Num(-cf.amount)

\* filter(cf => parseISO(cf.date) <= targetDate).reduce(sum + signed amount, 0)
RECURSIVE getCumulativeCashFlow(_, _)
getCumulativeCashFlow(cashFlows, date) ==
  IF cashFlows = <<>> THEN Num(0)
  ELSE LET cf == cashFlows[Len(cashFlows)]
           rest == getCumulativeCashFlow(SubSeq(cashFlows, 1, Len(cashFlows) - 1), date)
       IN  IF cf.date <= date THEN QAdd(rest, signedAmount(cf)) ELSE rest

\* Map.set
MapSet(map, key, value) == [k \in DOMAIN map \cup {key} |-> IF k = key THEN value ELSE map[k]]

\* an iteration that adds the new cash flows before it applies the growth
projectionStepCashFirst(baseData, startingAmount, growthRatePerDay, cashFlows, index, result) ==
  LET point == baseData[index + 1]
  IN  IF index = 0
      THEN MapSet(result, point, QAdd(startingAmount, getCumulativeCashFlow(cashFlows, point)))
      ELSE LET prevPoint == baseData[index]
               prevValue == result[prevPoint]
               prevCashFlow == getCumulativeCashFlow(cashFlows, prevPoint)
               currentCashFlow == getCumulativeCashFlow(cashFlows, point)
               newCashFlows == QSub(currentCashFlow, prevCashFlow)
               businessDaysBetween == countBusinessDays(prevPoint, point)
               growthMultiplier == QPow(QAdd(Num(1), growthRatePerDay), businessDaysBetween)
               valueAfterGrowth == QMul(QAdd(prevValue, newCashFlows), growthMultiplier)
           IN  MapSet(result, point, valueAfterGrowth)

\* one iteration of baseData.forEach, index counted from 0 as in the source
projectionStep(baseData, startingAmount, growthRatePerDay, cashFlows, index, result) ==
  LET point == baseData[index + 1]
  IN  IF index = 0
      THEN MapSet(result, point, QAdd(startingAmount, getCumulativeCashFlow(cashFlows, point)))
      ELSE LET prevPoint == baseData[index]
               prevValue == result[prevPoint]
               prevCashFlow == getCumulativeCashFlow(cashFlows, prevPoint)
               currentCashFlow == getCumulativeCashFlow(cashFlows, point)
               newCashFlows == QSub(currentCashFlow, prevCashFlow)
               businessDaysBetween == countBusinessDays(prevPoint, point)
               growthMultiplier == QPow(QAdd(Num(1), growthRatePerDay), businessDaysBetween)
               valueAfterGrowth == QMul(prevValue, growthMultiplier)
           IN  MapSet(result, point, QAdd(valueAfterGrowth, newCashFlows))

RECURSIVE projectionLoop(_, _, _, _, _, _)
projectionLoop(baseData, startingAmount, growthRatePerDay, cashFlows, index, result) ==
  IF index >= Len(baseData) THEN result
  ELSE projectionLoop(baseData, startingAmount, growthRatePerDay, cashFlows, index + 1,
         projectionStep(baseData, startingAmount, growthRatePerDay, cashFlows, index, result))

calculateProjection(baseData, startingAmount, growthRatePerDay, cashFlows) ==
  projectionLoop(baseData, startingAmount, growthRatePerDay, cashFlows, 0, <<>>)

\* the callers pass the dates of a projected or actual series: ascending, no repeats
Ascending(s) == \A i \in 1 .. Len(s) - 1 : s[i] < s[i + 1]

BaseDataLists == {s \in SeqsUpTo(Dates, MaxPoints) : Ascending(s)}

StartingAmounts == {Num(1000)}

\* 0, +10% and -50% per business day
GrowthRates == {Num(0), Q(1, 10), Q(-1, 2)}

NoReturn == "none"

\* localStorage before any tracker is saved: getAllTrackers() returns []
NoTrackers == <<>>

\* no call of the engine has been observed yet
NoCalls == <<>>

\* no useIBKRStream hook is mounted, no backend router is running
NoStream == <<>>

NoRouter == <<>>

InitProjection ==
  /\ pc = "call"
  /\ call \in [fn : {"calculateProjection"}, baseData : BaseDataLists,
               startingAmount : StartingAmounts, growthRatePerDay : GrowthRates,
               cashFlows : CashFlowLists]
  /\ ret = NoReturn
  /\ storage = NoTrackers
  /\ history = NoCalls
  /\ stream = NoStream
  /\ router = NoRouter

CalculateProjection ==
  /\ pc = "call"
  /\ call.fn = "calculateProjection"
  /\ ret' = calculateProjection(call.baseData, call.startingAmount,
                                call.growthRatePerDay, call.cashFlows)
  /\ pc' = "done"
  /\ UNCHANGED <<call, storage, history, stream, router>>

SpecProjection == InitProjection /\ [][CalculateProjection]_vars

----------------------------------------------------------------------------
(* calculateProjectedValues: the growth projection generator *)

\* the scenario dates reach a week further than the cash-flow dates
ProjectionDates == 0 .. (2 * MaxDay + 1)

\* config.intervalDays ranges over 1 .. MaxInterval
MaxInterval == 3

\* 1 + config.projectedIncreasePercent / 100
growthFactor(config) == QAdd(Num(1), QDiv(Num(config.projectedIncreasePercent), Num(100)))

\* the milestone loop: milestones is the list built so far
RECURSIVE milestoneLoop(_, _, _, _, _, _)
milestoneLoop(config, end, milestones, milestoneDate, currentAmount, businessDaysElapsed) ==
  IF milestoneDate < end
  THEN LET nextDate == addBusinessDays(milestoneDate, config.intervalDays)
           nextAmount == QMul(currentAmount, growthFactor(config))
           nextElapsed == businessDaysElapsed + config.intervalDays
       IN  IF nextDate > end THEN milestones
           ELSE milestoneLoop(config, end,
                              Append(milestones, [date |-> nextDate, amount |-> nextAmount,
                                                  businessDayNumber |-> nextElapsed]),
                              nextDate, nextAmount, nextElapsed)
  ELSE milestones

\* a bug: the loop pushes the milestone before it tests it against the end date
RECURSIVE milestoneLoopNoBreak(_, _, _, _, _, _)
milestoneLoopNoBreak(config, end, milestones, milestoneDate, currentAmount, businessDaysElapsed) ==
  IF milestoneDate < end
  THEN LET nextDate == addBusinessDays(milestoneDate, config.intervalDays)
           nextAmount == QMul(currentAmount, growthFactor(config))
           nextElapsed == businessDaysElapsed + config.intervalDays
       IN  milestoneLoopNoBreak(config, end,
                                Append(milestones, [date |-> nextDate, amount |-> nextAmount,
                                                    businessDayNumber |-> nextElapsed]),
                                nextDate, nextAmount, nextElapsed)
  ELSE milestones

growthMilestonesNoBreak(config, end) ==
  milestoneLoopNoBreak(config, end,
                       <<[date |-> config.startDate, amount |-> config.startingAmount,
                          businessDayNumber |-> 0]>>,
                       config.startDate, config.startingAmount, 0)

\* the milestones: the starting one, then one per interval of business days
growthMilestones(config, end) ==
  milestoneLoop(config, end,
                <<[date |-> config.startDate, amount |-> config.startingAmount,
                   businessDayNumber |-> 0]>>,
                config.startDate, config.startingAmount, 0)

\* the for loop that finds milestoneIndex (counted from 0): the last milestone
\* dated on or before currentDate, 0 when there is none
findMilestoneIndex(milestones, currentDate) ==
  LET reached == {i \in 0 .. Len(milestones) - 1 : currentDate >= milestones[i + 1].date}
  IN  IF reached = {} THEN 0 ELSE CHOOSE i \in reached : \A j \in reached : j <= i

\* a bug: the interpolation advances by calendar days, weekends included
projectedAmountCalendarDays(milestones, currentDate) ==
  LET milestoneIndex == findMilestoneIndex(milestones, currentDate)
      fromMilestone == milestones[milestoneIndex + 1]
  IN  IF milestoneIndex + 2 > Len(milestones)
      THEN fromMilestone.amount
      ELSE LET toMilestone == milestones[milestoneIndex + 2]
           IN  IF currentDate = toMilestone.date
               THEN toMilestone.amount
               ELSE LET businessDaysBetweenMilestones ==
                          toMilestone.date - fromMilestone.date
                        businessDaysFromLastMilestone ==
                          currentDate - fromMilestone.date
                        progress ==
                          IF businessDaysBetweenMilestones > 0
                          THEN QDiv(Num(businessDaysFromLastMilestone),
                                    Num(businessDaysBetweenMilestones))
                          ELSE Num(0)
                    IN  QAdd(fromMilestone.amount,
                             QMul(QSub(toMilestone.amount, fromMilestone.amount), progress))

\* the amount of the data point of currentDate
projectedAmount(milestones, currentDate) ==
  LET milestoneIndex == findMilestoneIndex(milestones, currentDate)
      fromMilestone == milestones[milestoneIndex + 1]
  IN  IF milestoneIndex + 2 > Len(milestones)
      THEN fromMilestone.amount
      ELSE LET toMilestone == milestones[milestoneIndex + 2]
           IN  IF currentDate = toMilestone.date
               THEN toMilestone.amount
               ELSE LET businessDaysBetweenMilestones ==
                          countBusinessDays(fromMilestone.date, toMilestone.date)
                        businessDaysFromLastMilestone ==
                          countBusinessDays(fromMilestone.date, currentDate)
                        progress ==
                          IF businessDaysBetweenMilestones > 0
                          THEN QDiv(Num(businessDaysFromLastMilestone),
                                    Num(businessDaysBetweenMilestones))
                          ELSE Num(0)
                    IN  QAdd(fromMilestone.amount,
                             QMul(QSub(toMilestone.amount, fromMilestone.amount), progress))

\* the while loop that generates the daily data points
RECURSIVE projectedDataLoop(_, _, _, _, _)
projectedDataLoop(milestones, end, currentDate, dayNumber, projectedData) ==
  IF currentDate <= end
  THEN projectedDataLoop(milestones, end, currentDate + 1, dayNumber + 1,
                         Append(projectedData,
                                [date |-> currentDate,
                                 amount |-> projectedAmount(milestones, currentDate),
                                 dayNumber |-> dayNumber]))
  ELSE projectedData

\* a bug: the daily loop stops before the end date (currentDate < end)
calculateProjectedValuesExclusiveEnd(config, endDate) ==
  projectedDataLoop(growthMilestones(config, endDate), endDate - 1, config.startDate, 0, <<>>)

\* a bug: the milestones are computed up to a week past the end date
calculateProjectedValuesLateMilestones(config, endDate) ==
  projectedDataLoop(growthMilestones(config, endDate + 7), endDate, config.startDate, 0, <<>>)

\* endDate is always given here: the default of one year after the start lies
\* outside ProjectionDates
calculateProjectedValues(config, endDate) ==
  projectedDataLoop(growthMilestones(config, endDate), endDate, config.startDate, 0, <<>>)

\* -50%, 0%, +50% and +100% per interval
IncreasePercents == {-50, 0, 50, 100}

ProjectionConfigs ==
  [startDate : ProjectionDates, startingAmount : StartingAmounts,
   projectedIncreasePercent : IncreasePercents, intervalDays : 1 .. MaxInterval]

InitProjected ==
  /\ pc = "call"
  /\ call \in [fn : {"calculateProjectedValues"}, config : ProjectionConfigs,
               endDate : ProjectionDates]
  /\ ret = NoReturn
  /\ storage = NoTrackers
  /\ history = NoCalls
  /\ stream = NoStream
  /\ router = NoRouter

CalculateProjectedValues ==
  /\ pc = "call"
  /\ call.fn = "calculateProjectedValues"
  /\ ret' = calculateProjectedValues(call.config, call.endDate)
  /\ pc' = "done"
  /\ UNCHANGED <<call, storage, history, stream, router>>

SpecProjected == InitProjected /\ [][CalculateProjectedValues]_vars

----------------------------------------------------------------------------
(* calculateDrawdown: analytics.ts *)

\* the dates of the analytics inputs, where only the order of dates matters
AnalyticsDates == 0 .. (MaxFlows + 1)

ActualAmounts == {50, 100, 200}

ActualDataPoint == [date : AnalyticsDates, amount : ActualAmounts]

\* storage.addActualDataPoint keeps one point per date, sorted by date
ActualDataLists ==
  {s \in SeqsUpTo(ActualDataPoint, MaxPoints) :
     \A i \in 1 .. Len(s) - 1 : s[i].date < s[i + 1].date}

AnalyticsCashFlowLists ==
  {s \in CashFlowLists : \A i \in DOMAIN s : s[i].date \in AnalyticsDates}

\* [...actualData].sort((a, b) => a.date - b.date): a stable sort by date
RECURSIVE insertByDate(_, _)
insertByDate(sorted, point) ==
  IF sorted = <<>> THEN <<point>>
  ELSE IF sorted[Len(sorted)].date <= point.date THEN Append(sorted, point)
  ELSE Append(insertByDate(SubSeq(sorted, 1, Len(sorted) - 1), point), sorted[Len(sorted)])

RECURSIVE sortByDate(_)
sortByDate(data) ==
  IF data = <<>> THEN <<>>
  ELSE insertByDate(sortByDate(SubSeq(data, 1, Len(data) - 1)), data[Len(data)])

\* filter(cf => cf.date <= point.date).reduce((sum, cf) => sum + cf.amount, 0)
RECURSIVE drawdownCumulativeCashFlows(_, _)
drawdownCumulativeCashFlows(cashFlows, date) ==
  IF cashFlows = <<>> THEN Num(0)
  ELSE LET cf == cashFlows[Len(cashFlows)]
           rest == drawdownCumulativeCashFlows(SubSeq(cashFlows, 1, Len(cashFlows) - 1), date)
       IN  IF cf.date <= date THEN QAdd(rest, Num(cf.amount)) ELSE rest

\* sortedData.map(point => ({date, amount, adjustedAmount}))
adjustedData(sortedData, cashFlows) ==
  [i \in DOMAIN sortedData |->
     [date |-> sortedData[i].date,
      amount |-> Num(sortedData[i].amount),
      adjustedAmount |-> QSub(Num(sortedData[i].amount),
                              drawdownCumulativeCashFlows(cashFlows, sortedData[i].date))]]

\* a null date; a null currentDrawdownPeriod is the empty sequence, a period p is <<p>>
NullDate == -1

NoPeriod == <<>>

\* a bug: a period closed by a new peak is not marked as recovered
drawdownStepNotRecovered(st, point) ==
  IF QGt(point.adjustedAmount, st.peak)
  THEN [st EXCEPT
          !.drawdownPeriods =
             IF st.currentDrawdownPeriod # NoPeriod
             THEN Append(@, [st.currentDrawdownPeriod[1] EXCEPT !.endDate = point.date])
             ELSE @,
          !.currentDrawdownPeriod = NoPeriod,
          !.peak = point.adjustedAmount,
          !.peakDate = point.date]
  ELSE LET drawdown == IF QGt(st.peak, Num(0))
                       THEN QMul(QDiv(QSub(st.peak, point.adjustedAmount), st.peak), Num(100))
                       ELSE Num(0)
           period ==
             IF QGt(drawdown, Num(0)) /\ st.currentDrawdownPeriod = NoPeriod
             THEN <<[startDate |-> st.peakDate, endDate |-> NullDate,
                     drawdown |-> drawdown, recovered |-> FALSE]>>
             ELSE IF st.currentDrawdownPeriod # NoPeriod
             THEN <<[st.currentDrawdownPeriod[1] EXCEPT !.drawdown = QMax(@, drawdown)]>>
             ELSE st.currentDrawdownPeriod
           newMax == QGt(drawdown, st.maxDrawdown)
       IN  [st EXCEPT
              !.currentDrawdownPeriod = period,
              !.maxDrawdown = IF newMax THEN drawdown ELSE @,
              !.maxDrawdownStartDate = IF newMax THEN st.peakDate ELSE @,
              !.maxDrawdownEndDate = IF newMax THEN point.date ELSE @]

\* one iteration of adjustedData.forEach; st holds the locals of calculateDrawdown
drawdownStep(st, point) ==
  IF QGt(point.adjustedAmount, st.peak)
  THEN [st EXCEPT
          !.drawdownPeriods =
             IF st.currentDrawdownPeriod # NoPeriod
             THEN Append(@, [st.currentDrawdownPeriod[1] EXCEPT !.endDate = point.date,
                                                                !.recovered = TRUE])
             ELSE @,
          !.currentDrawdownPeriod = NoPeriod,
          !.peak = point.adjustedAmount,
          !.peakDate = point.date]
  ELSE LET drawdown == IF QGt(st.peak, Num(0))
                       THEN QMul(QDiv(QSub(st.peak, point.adjustedAmount), st.peak), Num(100))
                       ELSE Num(0)
           period ==
             IF QGt(drawdown, Num(0)) /\ st.currentDrawdownPeriod = NoPeriod
             THEN <<[startDate |-> st.peakDate, endDate |-> NullDate,
                     drawdown |-> drawdown, recovered |-> FALSE]>>
             ELSE IF st.currentDrawdownPeriod # NoPeriod
             THEN <<[st.currentDrawdownPeriod[1] EXCEPT !.drawdown = QMax(@, drawdown)]>>
             ELSE st.currentDrawdownPeriod
           newMax == QGt(drawdown, st.maxDrawdown)
       IN  [st EXCEPT
              !.currentDrawdownPeriod = period,
              !.maxDrawdown = IF newMax THEN drawdown ELSE @,
              !.maxDrawdownStartDate = IF newMax THEN st.peakDate ELSE @,
              !.maxDrawdownEndDate = IF newMax THEN point.date ELSE @]

RECURSIVE drawdownLoop(_, _, _)
drawdownLoop(st, adjusted, i) ==
  IF i > Len(adjusted) THEN st
  ELSE drawdownLoop(drawdownStep(st, adjusted[i]), adjusted, i + 1)

\* the scan of the adjusted series and the result built from it
drawdownScan(adjusted) ==
  LET st0 == [peak |-> adjusted[1].adjustedAmount, peakDate |-> adjusted[1].date,
              maxDrawdown |-> Num(0), maxDrawdownStartDate |-> NullDate,
              maxDrawdownEndDate |-> NullDate, drawdownPeriods |-> <<>>,
              currentDrawdownPeriod |-> NoPeriod]
      st == drawdownLoop(st0, adjusted, 1)
      lastPoint == adjusted[Len(adjusted)]
      currentDrawdown ==
        IF QGt(st.peak, lastPoint.adjustedAmount)
        THEN QMul(QDiv(QSub(st.peak, lastPoint.adjustedAmount), st.peak), Num(100))
        ELSE Num(0)
  IN  [maxDrawdown |-> st.maxDrawdown,
       maxDrawdownStartDate |-> st.maxDrawdownStartDate,
       maxDrawdownEndDate |-> st.maxDrawdownEndDate,
       currentDrawdown |-> currentDrawdown,
       drawdownPeriods |-> IF st.currentDrawdownPeriod # NoPeriod
                           THEN Append(st.drawdownPeriods, st.currentDrawdownPeriod[1])
                           ELSE st.drawdownPeriods]

calculateDrawdown(actualData, cashFlows) ==
  IF Len(actualData) = 0
  THEN [maxDrawdown |-> Num(0), maxDrawdownStartDate |-> NullDate,
        maxDrawdownEndDate |-> NullDate,
        currentDrawdown |-> Num(0), drawdownPeriods |-> <<>>]
  ELSE drawdownScan(adjustedData(sortByDate(actualData), cashFlows))

InitDrawdown ==
  /\ pc = "call"
  /\ call \in [fn : {"calculateDrawdown"},
               \* one point more than elsewhere: two periods take four points
               actualData : {s \in SeqsUpTo(ActualDataPoint, MaxPoints + 1) :
                               \A i \in 1 .. Len(s) - 1 : s[i].date < s[i + 1].date},
               \* cash flows of the first two days
               cashFlows : {s \in AnalyticsCashFlowLists :
                              \A i \in DOMAIN s : s[i].date <= 1}]
  /\ ret = NoReturn
  /\ storage = NoTrackers
  /\ history = NoCalls
  /\ stream = NoStream
  /\ router = NoRouter

CalculateDrawdown ==
  /\ pc = "call"
  /\ call.fn = "calculateDrawdown"
  /\ ret' = calculateDrawdown(call.actualData, call.cashFlows)
  /\ pc' = "done"
  /\ UNCHANGED <<call, storage, history, stream, router>>

SpecDrawdown == InitDrawdown /\ [][CalculateDrawdown]_vars

----------------------------------------------------------------------------
(* calculateActualAverageIncrease: the actual-performance rate estimator *)

\* longest actual series given to the estimator
MaxActual == MaxPoints - 1

\* Friday 2025-10-10 onwards: a weekend and the business days after it
EstimatorDates == 1 .. (MaxFlows + 3)

EstimatorAmounts == {0, 100, 121}

\* any order and repeated dates: the estimator sorts its argument itself
EstimatorDataLists ==
  SeqsUpTo([date : EstimatorDates, amount : EstimatorAmounts], MaxActual)

\* null, and a returned object r as <<r>>
Null == <<>>

\* Math.pow(x, 1 / n) - 1 is kept symbolic: [base |-> x, root |-> n]
rootMinusOne(x, n) == [base |-> x, root |-> n]

\* a bug: the first element of the argument is taken as the earliest point
calculateActualAverageIncreaseUnsorted(actualData, intervalDays) ==
  IF Len(actualData) < 2 THEN Null
  ELSE LET firstValue == Num(actualData[1].amount)
           lastValue == Num(actualData[Len(actualData)].amount)
           totalIncreasePercent ==
             QMul(QDiv(QSub(lastValue, firstValue), firstValue), Num(100))
       IN  IF QLe(firstValue, Num(0)) THEN Null
           ELSE <<[dailyRate |->
                     rootMinusOne(QAdd(Num(1), QDiv(totalIncreasePercent, Num(100))),
                                  intervalDays),
                   intervalPercentage |-> totalIncreasePercent]>>

\* the function declares (actualData, intervalDays): the cashFlows that
\* ProgressChart, SummaryStats and the tests pass as a third argument are dropped
calculateActualAverageIncrease(actualData, intervalDays) ==
  IF Len(actualData) < 2 THEN Null
  ELSE LET sorted == sortByDate(actualData)
           firstValue == Num(sorted[1].amount)
           lastValue == Num(sorted[Len(sorted)].amount)
           totalIncreasePercent ==
             QMul(QDiv(QSub(lastValue, firstValue), firstValue), Num(100))
       IN  IF QLe(firstValue, Num(0)) THEN Null
           ELSE <<[dailyRate |->
                     rootMinusOne(QAdd(Num(1), QDiv(totalIncreasePercent, Num(100))),
                                  intervalDays),
                   intervalPercentage |-> totalIncreasePercent]>>

InitAverage ==
  /\ pc = "call"
  /\ call \in [fn : {"calculateActualAverageIncrease"}, actualData : EstimatorDataLists,
               intervalDays : 1 .. MaxInterval]
  /\ ret = NoReturn
  /\ storage = NoTrackers
  /\ history = NoCalls
  /\ stream = NoStream
  /\ router = NoRouter

CalculateActualAverageIncrease ==
  /\ pc = "call"
  /\ call.fn = "calculateActualAverageIncrease"
  /\ ret' = calculateActualAverageIncrease(call.actualData, call.intervalDays)
  /\ pc' = "done"
  /\ UNCHANGED <<call, storage, history, stream, router>>

SpecAverage == InitAverage /\ [][CalculateActualAverageIncrease]_vars

----------------------------------------------------------------------------
(* calculateVariance *)

\* projected and actual values: -100, 0, 100, ...
VarianceAmounts == {100 * k : k \in (0 - 1) .. (2 * MaxDay)}

\* the function declares (projected, actual): the date and cashFlows that
\* SummaryStats and the tests pass after them are dropped
calculateVariance(projected, actual) ==
  LET absolute == QSub(actual, projected)
      percentage == IF QGt(projected, Num(0))
                    THEN QMul(QDiv(absolute, projected), Num(100))
                    ELSE Num(0)
  IN  [absolute |-> absolute, percentage |-> percentage]

InitVariance ==
  /\ pc = "call"
  /\ call \in [fn : {"calculateVariance"},
               projected : {Num(a) : a \in VarianceAmounts},
               actual : {Num(a) : a \in VarianceAmounts}]
  /\ ret = NoReturn
  /\ storage = NoTrackers
  /\ history = NoCalls
  /\ stream = NoStream
  /\ router = NoRouter

CalculateVariance ==
  /\ pc = "call"
  /\ call.fn = "calculateVariance"
  /\ ret' = calculateVariance(call.projected, call.actual)
  /\ pc' = "done"
  /\ UNCHANGED <<call, storage, history, stream, router>>

SpecVariance == InitVariance /\ [][CalculateVariance]_vars

----------------------------------------------------------------------------
(* calculateReturn: analytics.ts *)

\* relevantCashFlows.forEach(cf => { adjustedStartValue += cf.amount }) over the
\* flows with startDate < cf.date <= endDate
RECURSIVE returnAdjustedStartValue(_, _, _, _)
returnAdjustedStartValue(startValue, cashFlows, startDate, endDate) ==
  IF cashFlows = <<>> THEN startValue
  ELSE LET cf == cashFlows[Len(cashFlows)]
           rest == returnAdjustedStartValue(startValue,
                     SubSeq(cashFlows, 1, Len(cashFlows) - 1), startDate, endDate)
       IN  IF cf.date > startDate /\ cf.date <= endDate
           THEN QAdd(rest, Num(cf.amount))
           ELSE rest

calculateReturn(startValue, endValue, cashFlows, startDate, endDate) ==
  LET adjustedStartValue ==
        returnAdjustedStartValue(startValue, cashFlows, startDate, endDate)
  IN  IF QLe(adjustedStartValue, Num(0)) THEN Num(0)
      ELSE QMul(QDiv(QSub(endValue, adjustedStartValue), adjustedStartValue), Num(100))

\* account values at the two ends of a period
ReturnValues == {Num(0), Num(100), Num(200)}

InitReturn ==
  /\ pc = "call"
  /\ call \in [fn : {"calculateReturn"}, startValue : ReturnValues,
               endValue : ReturnValues, cashFlows : AnalyticsCashFlowLists,
               startDate : AnalyticsDates, endDate : AnalyticsDates]
  /\ ret = NoReturn
  /\ storage = NoTrackers
  /\ history = NoCalls
  /\ stream = NoStream
  /\ router = NoRouter

CalculateReturn ==
  /\ pc = "call"
  /\ call.fn = "calculateReturn"
  /\ ret' = calculateReturn(call.startValue, call.endValue, call.cashFlows,
                            call.startDate, call.endDate)
  /\ pc' = "done"
  /\ UNCHANGED <<call, storage, history, stream, router>>

SpecReturn == InitReturn /\ [][CalculateReturn]_vars

----------------------------------------------------------------------------
(* countBusinessDays and addBusinessDays called on their own *)

\* Friday 2025-01-17, where the 'market holidays' tests of calculations.test.ts
\* start: 265 days before day 0
MLKWeekStart == -265

\* the days from 2025-01-17 on: a weekend, a holiday Monday and working days
CalendarDates == MLKWeekStart .. (MLKWeekStart + MaxDay + 2)

InitCalendar ==
  /\ pc = "call"
  /\ call \in [fn : {"countBusinessDays"}, startDate : CalendarDates,
               endDate : CalendarDates]
              \cup [fn : {"addBusinessDays"}, date : CalendarDates,
                    businessDays : 0 .. MaxInterval]
  /\ ret = NoReturn
  /\ storage = NoTrackers
  /\ history = NoCalls
  /\ stream = NoStream
  /\ router = NoRouter

CountBusinessDays ==
  /\ pc = "call"
  /\ call.fn = "countBusinessDays"
  /\ ret' = countBusinessDays(call.startDate, call.endDate)
  /\ pc' = "done"
  /\ UNCHANGED <<call, storage, history, stream, router>>

AddBusinessDays ==
  /\ pc = "call"
  /\ call.fn = "addBusinessDays"
  /\ ret' = addBusinessDays(call.date, call.businessDays)
  /\ pc' = "done"
  /\ UNCHANGED <<call, storage, history, stream, router>>

NextCalendar == CountBusinessDays \/ AddBusinessDays

SpecCalendar == InitCalendar /\ [][NextCalendar]_vars

----------------------------------------------------------------------------
(* The generator and the compositor called again and again by one caller *)

\* calls observed in one behaviour
MaxCalls == 3

\* the calls a caller makes: the generator, the compositor, and
\* countBusinessDays for the rest of the engine
EngineCalls ==
  [fn : {"calculateProjectedValues"},
   config : {c \in ProjectionConfigs :
               /\ c.startDate = 0
               /\ c.projectedIncreasePercent = 50
               /\ c.intervalDays \in {1, MaxInterval}},
   endDate : {MaxDay}]
  \cup [fn : {"calculateProjection"},
        baseData : {s \in BaseDataLists : Len(s) = 2 /\ s[1] = 0 /\ s[2] \in {1, MaxDay}},
        startingAmount : StartingAmounts,
        growthRatePerDay : {Q(1, 10)},
        cashFlows : {s \in CashFlowLists :
                       \A i \in DOMAIN s : s[i].date \in {1, 2} /\ s[i].type = "deposit"}]
  \cup [fn : {"countBusinessDays"}, startDate : {0}, endDate : {MaxDay}]

\* what the call returns: each function reads its parameters only (the module
\* has no variable outside its functions, and the default end date is
\* addYears(startDate, 1), not the clock)
engineResult(c) ==
  CASE c.fn = "calculateProjectedValues" -> calculateProjectedValues(c.config, c.endDate)
    [] c.fn = "calculateProjection" ->
         calculateProjection(c.baseData, c.startingAmount, c.growthRatePerDay, c.cashFlows)
    [] c.fn = "countBusinessDays" -> countBusinessDays(c.startDate, c.endDate)

\* a compositor that sorts the caller's cashFlows in place, latest first
engineArgumentsSortedInPlace(c) ==
  IF c.fn = "calculateProjection"
  THEN [c EXCEPT !.cashFlows = [i \in DOMAIN c.cashFlows |->
                                  sortByDate(c.cashFlows)[Len(c.cashFlows) + 1 - i]]]
  ELSE c

\* the caller's arguments as the call leaves them: the functions build a new
\* array or Map and only read config, baseData and cashFlows (parseISO,
\* forEach, filter, reduce, index), so nothing is written to them
engineArguments(c) == c

InitEngine ==
  /\ pc = "call"
  /\ call = [fn |-> "none"]
  /\ ret = NoReturn
  /\ storage = NoTrackers
  /\ history = NoCalls
  /\ stream = NoStream
  /\ router = NoRouter

\* one call; history keeps its arguments before and after, and its result
EngineCall ==
  \E c \in EngineCalls :
    /\ Len(history) < MaxCalls
    /\ call' = engineArguments(c)
    /\ ret' = engineResult(c)
    /\ history' = Append(history, [call |-> c, ret |-> engineResult(c),
                                   after |-> engineArguments(c)])
    /\ pc' = "done"
    /\ UNCHANGED <<storage, stream, router>>

SpecEngine == InitEngine /\ [][EngineCall]_vars

----------------------------------------------------------------------------
(* generateScheduledCashFlows: calculations.ts *)

\* the day numbers of 2025-10-01, 2025-11-01, 2025-12-01, 2026-01-01, 2026-02-01
MonthStart == <<-8, 23, 53, 84, 115>>

\* date-fns addMonths(date, 1): the same day of the next month, or its last day
addMonths(date) ==
  LET m == CHOOSE i \in 1 .. 3 : MonthStart[i] <= date /\ date < MonthStart[i + 1]
      dayOfMonth == date - MonthStart[m] + 1
      daysInNext == MonthStart[m + 2] - MonthStart[m + 1]
  IN  MonthStart[m + 1] + (IF dayOfMonth < daysInNext THEN dayOfMonth ELSE daysInNext) - 1

\* the while loop: pushes a deposit for currentDate, then steps by the frequency;
\* the id is the number of the crypto.randomUUID() draw, draws being distinct
RECURSIVE scheduledLoop(_, _, _, _)
scheduledLoop(schedule, endDate, currentDate, cashFlows) ==
  IF currentDate <= endDate
  THEN scheduledLoop(schedule, endDate,
         CASE schedule.frequency = "daily" -> currentDate + 1
           [] schedule.frequency = "weekly" -> currentDate + 7
           [] schedule.frequency = "biweekly" -> currentDate + 14
           [] schedule.frequency = "monthly" -> addMonths(currentDate),
         Append(cashFlows, [id |-> Len(cashFlows) + 1, date |-> currentDate,
                            amount |-> schedule.amount, type |-> "deposit",
                            source |-> "scheduled"]))
  ELSE cashFlows

\* schedule.startDate and schedule.endDate are optional: NullDate when absent
generateScheduledCashFlows(schedule, trackerStartDate, trackerEndDate) ==
  IF ~schedule.enabled \/ schedule.amount <= 0 THEN <<>>
  ELSE scheduledLoop(schedule,
         IF schedule.endDate # NullDate THEN schedule.endDate ELSE trackerEndDate,
         IF schedule.startDate # NullDate THEN schedule.startDate ELSE trackerStartDate,
         <<>>)

----------------------------------------------------------------------------
(* api/storage: the actual data points of a tracker kept in localStorage *)

\* getAllTrackers() is the value of storage: JSON.stringify and JSON.parse keep
\* the strings, the finite numbers and the order of the arrays stored here

\* the tracker that handlePortfolioUpdate creates and feeds
TrackerIds == {"ibkr-portfolio"}

\* account values written as actual data
StoredAmounts == {100, 200}

\* summary.timestamp of two portfolio updates
SyncTimestamps == {"t1", "t2"}

\* trackers.find(inv => inv.config.id === id) || null
getTrackerById(trackers, id) ==
  LET found == SelectSeq(trackers, LAMBDA t : t.config.id = id)
  IN  IF found = <<>> THEN Null ELSE <<found[1]>>

\* replaces the tracker of the same id, or pushes a new one
saveTracker(trackers, tracker) ==
  LET existing == {i \in DOMAIN trackers : trackers[i].config.id = tracker.config.id}
  IN  IF existing # {}
      THEN [trackers EXCEPT ![CHOOSE i \in existing : \A j \in existing : i <= j] = tracker]
      ELSE Append(trackers, tracker)

\* config.depositSchedule is optional: the field is absent, or Null, when
\* there is no schedule
hasDepositSchedule(config) ==
  /\ "depositSchedule" \in DOMAIN config
  /\ config.depositSchedule # Null
  /\ config.depositSchedule[1].enabled

createTracker(trackers, config) ==
  saveTracker(trackers,
    [config |-> config, actualData |-> <<>>,
     cashFlows |-> IF hasDepositSchedule(config)
                   THEN generateScheduledCashFlows(config.depositSchedule[1],
                                                   config.startDate, config.endDate)
                   ELSE <<>>])

\* tracker.config = { ...tracker.config, ...updates }, for a tracker that exists
updateTrackerConfig(trackers, trackerId, updates) ==
  LET tracker == getTrackerById(trackers, trackerId)[1]
      merged == [k \in DOMAIN tracker.config \cup DOMAIN updates |->
                   IF k \in DOMAIN updates THEN updates[k] ELSE tracker.config[k]]
  IN  saveTracker(trackers, [tracker EXCEPT !.config = merged])

\* a bug: the point of the same date is not removed before the push
addActualDataPointNoFilter(trackers, trackerId, dataPoint) ==
  LET tracker == getTrackerById(trackers, trackerId)[1]
      pushed == Append(tracker.actualData, dataPoint)
  IN  saveTracker(trackers, [tracker EXCEPT !.actualData = sortByDate(pushed)])

\* filter out the date, push, sort by date, save: for a tracker that exists
addActualDataPoint(trackers, trackerId, dataPoint) ==
  LET tracker == getTrackerById(trackers, trackerId)[1]
      filtered == SelectSeq(tracker.actualData, LAMBDA point : point.date # dataPoint.date)
      pushed == Append(filtered, dataPoint)
  IN  saveTracker(trackers, [tracker EXCEPT !.actualData = sortByDate(pushed)])

updateActualDataPoint(trackers, trackerId, date, amount) ==
  addActualDataPoint(trackers, trackerId, [date |-> date, amount |-> amount])

\* for a tracker that exists
deleteActualDataPoint(trackers, trackerId, date) ==
  LET tracker == getTrackerById(trackers, trackerId)[1]
      filtered == SelectSeq(tracker.actualData, LAMBDA point : point.date # date)
  IN  saveTracker(trackers, [tracker EXCEPT !.actualData = filtered])

\* throw new Error('Tracker not found'), and the return of a void function
TrackerNotFound == "Error: Tracker not found"
Undefined == "undefined"

InitStorage ==
  /\ pc = "call"
  /\ call = [fn |-> "none"]
  /\ ret = NoReturn
  /\ storage = NoTrackers
  /\ history = NoCalls
  /\ stream = NoStream
  /\ router = NoRouter

AddActualDataPoint ==
  \E trackerId \in TrackerIds, date \in AnalyticsDates, amount \in StoredAmounts :
    /\ call' = [fn |-> "addActualDataPoint", trackerId |-> trackerId,
                date |-> date, amount |-> amount]
    /\ IF getTrackerById(storage, trackerId) = Null
       THEN ret' = TrackerNotFound /\ storage' = storage
       ELSE /\ ret' = Undefined
            /\ storage' = addActualDataPoint(storage, trackerId,
                                             [date |-> date, amount |-> amount])
    /\ pc' = "done"
    /\ UNCHANGED <<history, stream, router>>

\* App.handleUpdateActual
UpdateActualDataPoint ==
  \E trackerId \in TrackerIds, date \in AnalyticsDates, amount \in StoredAmounts :
    /\ call' = [fn |-> "updateActualDataPoint", trackerId |-> trackerId,
                date |-> date, amount |-> amount]
    /\ IF getTrackerById(storage, trackerId) = Null
       THEN ret' = TrackerNotFound /\ storage' = storage
       ELSE /\ ret' = Undefined
            /\ storage' = updateActualDataPoint(storage, trackerId, date, amount)
    /\ pc' = "done"
    /\ UNCHANGED <<history, stream, router>>

\* App.handleDeleteActual
DeleteActualDataPoint ==
  \E trackerId \in TrackerIds, date \in AnalyticsDates :
    /\ call' = [fn |-> "deleteActualDataPoint", trackerId |-> trackerId, date |-> date]
    /\ IF getTrackerById(storage, trackerId) = Null
       THEN ret' = TrackerNotFound /\ storage' = storage
       ELSE /\ ret' = Undefined
            /\ storage' = deleteActualDataPoint(storage, trackerId, date)
    /\ pc' = "done"
    /\ UNCHANGED <<history, stream, router>>

\* a push of the live account value: creates the portfolio tracker or updates
\* its sync timestamp, then writes today's point (the React state that the
\* handler refreshes afterwards is read back from storage)
HandlePortfolioUpdate ==
  \E today \in AnalyticsDates, netLiquidation \in StoredAmounts,
     timestamp \in SyncTimestamps :
    LET id == "ibkr-portfolio"
        prepared ==
          IF getTrackerById(storage, id) = Null
          THEN createTracker(storage, [id |-> id, startingAmount |-> netLiquidation,
                                       lastSyncTimestamp |-> timestamp])
          ELSE updateTrackerConfig(storage, id, [lastSyncTimestamp |-> timestamp])
    IN  /\ call' = [fn |-> "handlePortfolioUpdate", trackerId |-> id, date |-> today,
                    amount |-> netLiquidation, timestamp |-> timestamp]
        /\ storage' = updateActualDataPoint(prepared, id, today, netLiquidation)
        /\ ret' = Undefined
        /\ pc' = "done"
        /\ UNCHANGED <<history, stream, router>>

NextStorage ==
  \/ AddActualDataPoint
  \/ UpdateActualDataPoint
  \/ DeleteActualDataPoint
  \/ HandlePortfolioUpdate

SpecStorage == InitStorage /\ [][NextStorage]_vars

----------------------------------------------------------------------------
(* calculateWinRate: analytics.ts *)

\* the points of a projection: ascending dates, one point per date
WinRateProjectedLists ==
  {s \in SeqsUpTo([date : AnalyticsDates, amount : {100, 200}], MaxFlows) :
     \A i \in 1 .. Len(s) - 1 : s[i].date < s[i + 1].date}

\* projectedData.find(p => p.date === date): the first match, <<>> for undefined
findProjected(projectedData, date) ==
  LET found == SelectSeq(projectedData, LAMBDA p : p.date = date)
  IN  IF found = <<>> THEN <<>> ELSE <<found[1]>>

\* a bug: a tie with the projection is counted as a loss
RECURSIVE winRateLoopStrict(_, _, _, _)
winRateLoopStrict(actualData, projectedData, i, st) ==
  IF i > Len(actualData) THEN st
  ELSE LET actual == actualData[i]
           projected == findProjected(projectedData, actual.date)
           next == IF projected = <<>> THEN st
                   ELSE IF actual.amount > projected[1].amount
                        THEN [st EXCEPT !.total = @ + 1, !.wins = @ + 1]
                        ELSE [st EXCEPT !.total = @ + 1, !.losses = @ + 1]
       IN  winRateLoopStrict(actualData, projectedData, i + 1, next)

\* actualData.forEach: st holds wins, losses and total
RECURSIVE winRateLoop(_, _, _, _)
winRateLoop(actualData, projectedData, i, st) ==
  IF i > Len(actualData) THEN st
  ELSE LET actual == actualData[i]
           projected == findProjected(projectedData, actual.date)
           next == IF projected = <<>> THEN st
                   ELSE IF actual.amount >= projected[1].amount
                        THEN [st EXCEPT !.total = @ + 1, !.wins = @ + 1]
                        ELSE [st EXCEPT !.total = @ + 1, !.losses = @ + 1]
       IN  winRateLoop(actualData, projectedData, i + 1, next)

calculateWinRateStrict(actualData, projectedData) ==
  LET st == winRateLoopStrict(actualData, projectedData, 1,
                              [wins |-> 0, losses |-> 0, total |-> 0])
      winRate == IF st.total > 0
                 THEN QMul(QDiv(Num(st.wins), Num(st.total)), Num(100))
                 ELSE Num(0)
  IN  [winRate |-> winRate, wins |-> st.wins, losses |-> st.losses, total |-> st.total]

calculateWinRate(actualData, projectedData) ==
  LET st == winRateLoop(actualData, projectedData, 1, [wins |-> 0, losses |-> 0, total |-> 0])
      winRate == IF st.total > 0
                 THEN QMul(QDiv(Num(st.wins), Num(st.total)), Num(100))
                 ELSE Num(0)
  IN  [winRate |-> winRate, wins |-> st.wins, losses |-> st.losses, total |-> st.total]

InitWinRate ==
  /\ pc = "call"
  /\ call \in [fn : {"calculateWinRate"}, actualData : ActualDataLists,
               projectedData : WinRateProjectedLists]
  /\ ret = NoReturn
  /\ storage = NoTrackers
  /\ history = NoCalls
  /\ stream = NoStream
  /\ router = NoRouter

CalculateWinRate ==
  /\ pc = "call"
  /\ call.fn = "calculateWinRate"
  /\ ret' = calculateWinRate(call.actualData, call.projectedData)
  /\ pc' = "done"
  /\ UNCHANGED <<call, storage, history, stream, router>>

SpecWinRate == InitWinRate /\ [][CalculateWinRate]_vars

----------------------------------------------------------------------------
(* generateScheduledCashFlows called with the arguments of one call *)

InitScheduled ==
  /\ pc = "call"
  /\ call \in [fn : {"generateScheduledCashFlows"},
               schedule : [enabled : BOOLEAN,
                           frequency : {"daily", "weekly", "biweekly", "monthly"},
                           amount : {0, 100},
                           startDate : {NullDate, 1},
                           endDate : {NullDate, 6 * MaxDay}],
               trackerStartDate : {0},
               trackerEndDate : 0 .. (6 * MaxDay + 2)]
  /\ ret = NoReturn
  /\ storage = NoTrackers
  /\ history = NoCalls
  /\ stream = NoStream
  /\ router = NoRouter

GenerateScheduledCashFlows ==
  /\ pc = "call"
  /\ call.fn = "generateScheduledCashFlows"
  /\ ret' = generateScheduledCashFlows(call.schedule, call.trackerStartDate,
                                       call.trackerEndDate)
  /\ pc' = "done"
  /\ UNCHANGED <<call, storage, history, stream, router>>

SpecScheduled == InitScheduled /\ [][GenerateScheduledCashFlows]_vars

----------------------------------------------------------------------------
(* calculateRollingReturns (analytics.ts) *)

\* a bug: the lookback point must be dated strictly before the lookback date
lookbackPointStrict(sortedData, currentDate, period) ==
  LET found == {j \in DOMAIN sortedData : sortedData[j].date < currentDate - period}
  IN  IF found = {} THEN Null
      ELSE <<sortedData[CHOOSE j \in found : \A k \in found : k <= j]>>

\* findLast(sortedData, d => d.date <= subDays(currentDate, period)), Null for undefined
lookbackPoint(sortedData, currentDate, period) ==
  LET found == {j \in DOMAIN sortedData : sortedData[j].date <= currentDate - period}
  IN  IF found = {} THEN Null
      ELSE <<sortedData[CHOOSE j \in found : \A k \in found : k <= j]>>

\* the for loop over sortedData of one period, from index i on
RECURSIVE rollingLoop(_, _, _, _, _)
rollingLoop(sortedData, cashFlows, period, i, periodReturns) ==
  IF i > Len(sortedData) THEN periodReturns
  ELSE LET lookback == lookbackPoint(sortedData, sortedData[i].date, period)
       IN  rollingLoop(sortedData, cashFlows, period, i + 1,
             IF lookback # Null
             THEN Append(periodReturns,
                    [date |-> sortedData[i].date,
                     return |-> calculateReturn(Num(lookback[1].amount),
                                  Num(sortedData[i].amount), cashFlows,
                                  lookback[1].date, sortedData[i].date)])
             ELSE periodReturns)

\* the Map of the results: a function from the requested periods to their series
calculateRollingReturns(actualData, cashFlows, periods) ==
  [period \in {periods[k] : k \in DOMAIN periods} |->
     IF Len(actualData) < 2 THEN <<>>
     ELSE rollingLoop(sortByDate(actualData), cashFlows, period, 1, <<>>)]

\* rolling windows in calendar days; a window may be requested twice
RollingPeriods == {<<1>>, <<1, 2>>, <<2, 2>>}

InitRolling ==
  /\ pc = "call"
  /\ call \in [fn : {"calculateRollingReturns"}, actualData : ActualDataLists,
               \* cash flows of the first two days
               cashFlows : {s \in AnalyticsCashFlowLists :
                              \A i \in DOMAIN s : s[i].date <= 1},
               periods : RollingPeriods]
  /\ ret = NoReturn
  /\ storage = NoTrackers
  /\ history = NoCalls
  /\ stream = NoStream
  /\ router = NoRouter

CalculateRollingReturns ==
  /\ pc = "call"
  /\ call.fn = "calculateRollingReturns"
  /\ ret' = calculateRollingReturns(call.actualData, call.cashFlows, call.periods)
  /\ pc' = "done"
  /\ UNCHANGED <<call, storage, history, stream, router>>

SpecRolling == InitRolling /\ [][CalculateRollingReturns]_vars

----------------------------------------------------------------------------
(* getBestWorstPeriods (analytics.ts) *)

\* the number in MonthStart of the calendar month of date
monthOf(date) == CHOOSE i \in 1 .. 4 : MonthStart[i] <= date /\ date < MonthStart[i + 1]

\* months.forEach from the month numbered m to the one numbered lastMonth;
\* index is the position in eachMonthOfInterval's result
RECURSIVE monthlyLoop(_, _, _, _, _, _)
monthlyLoop(sortedData, cashFlows, m, lastMonth, index, monthlyReturns) ==
  IF m > lastMonth THEN monthlyReturns
  ELSE LET monthStart == MonthStart[m]
           monthEnd == MonthStart[m + 1] - 1
           atStart == {j \in DOMAIN sortedData : sortedData[j].date <= monthStart}
           fromStart == {j \in DOMAIN sortedData : sortedData[j].date >= monthStart}
           atEnd == {j \in DOMAIN sortedData : sortedData[j].date <= monthEnd}
           startPoint == IF atStart # {}
                         THEN <<sortedData[CHOOSE j \in atStart : \A k \in atStart : k <= j]>>
                         ELSE IF fromStart # {}
                         THEN <<sortedData[CHOOSE j \in fromStart : \A k \in fromStart : j <= k]>>
                         ELSE Null
           endPoint == IF atEnd # {}
                       THEN <<sortedData[CHOOSE j \in atEnd : \A k \in atEnd : k <= j]>>
                       ELSE Null
       IN  monthlyLoop(sortedData, cashFlows, m + 1, lastMonth, index + 1,
             IF index = 0 THEN monthlyReturns
             ELSE IF startPoint # Null /\ endPoint # Null
                     /\ startPoint[1].date # endPoint[1].date
             THEN Append(monthlyReturns,
                    [startDate |-> monthStart,
                     endDate |-> monthEnd,
                     return |-> calculateReturn(Num(startPoint[1].amount),
                                  Num(endPoint[1].amount), cashFlows,
                                  startPoint[1].date, endPoint[1].date),
                     duration |-> endPoint[1].date - startPoint[1].date])
             ELSE monthlyReturns)

\* [...monthlyReturns].sort((a, b) => b.return - a.return): stable, descending
sortedByReturn(monthlyReturns) ==
  LET n == Len(monthlyReturns)
      before(i, j) == \/ QGt(monthlyReturns[i].return, monthlyReturns[j].return)
                      \/ (monthlyReturns[i].return = monthlyReturns[j].return /\ i < j)
      rank(i) == 1 + Cardinality({j \in 1 .. n : before(j, i)})
  IN  [k \in 1 .. n |-> monthlyReturns[CHOOSE i \in 1 .. n : rank(i) = k]]

getBestWorstPeriods(actualData, cashFlows, topN) ==
  IF Len(actualData) < 2 THEN [best |-> <<>>, worst |-> <<>>]
  ELSE LET sortedData == sortByDate(actualData)
           sorted == sortedByReturn(
                       monthlyLoop(sortedData, cashFlows, monthOf(sortedData[1].date),
                                   monthOf(sortedData[Len(sortedData)].date), 0, <<>>))
           n == Len(sorted)
           \* slice(-topN): from index max(n - topN, 0), and -0 is 0
           from == IF topN = 0 \/ topN >= n THEN 0 ELSE n - topN
           tail == SubSeq(sorted, from + 1, n)
       IN  [best |-> SubSeq(sorted, 1, IF topN < n THEN topN ELSE n),
            worst |-> [k \in 1 .. Len(tail) |-> tail[Len(tail) + 1 - k]]]

\* first, ninth and last days of October and November 2025, and 1 December
BestWorstDates == {-8, 0, 22, 23, 31, 52, 53}

InitBestWorst ==
  /\ pc = "call"
  /\ call \in [fn : {"getBestWorstPeriods"},
               actualData : {s \in SeqsUpTo([date : BestWorstDates, amount : ActualAmounts],
                                            MaxPoints) :
                               \A i \in 1 .. Len(s) - 1 : s[i].date < s[i + 1].date},
               cashFlows : {s \in SeqsUpTo([date : {31}, amount : CashFlowAmounts,
                                            type : {"deposit", "withdrawal"}], 1) : TRUE},
               topN : {1, 2}]
  /\ ret = NoReturn
  /\ storage = NoTrackers
  /\ history = NoCalls
  /\ stream = NoStream
  /\ router = NoRouter

GetBestWorstPeriods ==
  /\ pc = "call"
  /\ call.fn = "getBestWorstPeriods"
  /\ ret' = getBestWorstPeriods(call.actualData, call.cashFlows, call.topN)
  /\ pc' = "done"
  /\ UNCHANGED <<call, storage, history, stream, router>>

SpecBestWorst == InitBestWorst /\ [][GetBestWorstPeriods]_vars

----------------------------------------------------------------------------
(* useIBKRStream (frontend/src/hooks/useIBKRStream.ts)                      *)
(* stream holds the props of the last render (enabled), the three refs,    *)
(* the EventSources that are not closed (open) and the timeouts that are   *)
(* set and have neither fired nor been cleared (timers); 0 is a null ref.  *)

MaxAttempts == 6

\* objects are told apart by a number; a closed EventSource and a fired or
\* cleared timeout deliver nothing any more, so their numbers are free again
ObjectIds == 1 .. 2

\* a bug: the pending reconnect timeout is forgotten without being cleared
cleanupKeepsTimer(s) ==
  [s EXCEPT !.open = @ \ {s.eventSourceRef},
            !.eventSourceRef = 0,
            !.reconnectTimeoutRef = 0]

cleanup(s) ==
  [s EXCEPT !.open = @ \ {s.eventSourceRef},
            !.eventSourceRef = 0,
            !.timers = {t \in @ : t.id # s.reconnectTimeoutRef},
            !.reconnectTimeoutRef = 0]

\* connect as created by a render whose enabled prop is the argument
connect(s, enabled) ==
  IF ~enabled THEN s
  ELSE LET c == cleanup(s)
           eventSource == CHOOSE id \in ObjectIds : id \notin c.open
       IN  [c EXCEPT !.open = @ \cup {eventSource}, !.eventSourceRef = eventSource]

InitStream ==
  /\ pc = "call"
  /\ call = [fn |-> "none"]
  /\ ret = NoReturn
  /\ storage = NoTrackers
  /\ history = NoCalls
  /\ stream = [mounted |-> TRUE, enabled |-> FALSE, eventSourceRef |-> 0,
               reconnectTimeoutRef |-> 0, reconnectAttemptsRef |-> 0,
               open |-> {}, timers |-> {}]
  /\ router = NoRouter

\* a render with a changed enabled prop or changed callbacks: the effect's
\* cleanup of the previous render runs, then the effect
Render(enabled) ==
  /\ stream.mounted
  /\ stream' = LET s == [cleanup(stream) EXCEPT !.enabled = enabled]
               IN  IF enabled THEN connect(s, enabled) ELSE cleanup(s)
  /\ call' = [fn |-> "render"]
  /\ UNCHANGED <<pc, ret, storage, history, router>>

\* the reconnect function that the hook returns
Reconnect ==
  /\ stream.mounted
  /\ stream' = connect(stream, stream.enabled)
  /\ call' = [fn |-> "connect"]
  /\ UNCHANGED <<pc, ret, storage, history, router>>

\* the 'connected' listener of an open EventSource
ConnectedEvent(eventSource) ==
  /\ eventSource \in stream.open
  /\ stream' = [stream EXCEPT !.reconnectAttemptsRef = 0]
  /\ call' = [fn |-> "connected"]
  /\ UNCHANGED <<pc, ret, storage, history, router>>

\* the 'accountUpdate' listener of an open EventSource: a message that parses
\* is handed to onAccountUpdate (ret is the timestamp of the summary it
\* received last), one
\* that does not is logged and dropped
AccountUpdateEvent(eventSource, data) ==
  /\ eventSource \in stream.open
  /\ ret' = IF data = "malformed" THEN ret ELSE data
  /\ call' = [fn |-> "accountUpdate"]
  /\ UNCHANGED <<pc, storage, history, stream, router>>

\* onerror of an open EventSource; it was created by a connect whose enabled
\* is true, and that is the enabled the handler reads
ErrorEvent(eventSource) ==
  /\ eventSource \in stream.open
  /\ stream.reconnectAttemptsRef < MaxAttempts
  /\ \E id \in ObjectIds :
       /\ \A t \in stream.timers : t.id # id
       /\ LET scaled == 1000 * 2 ^ stream.reconnectAttemptsRef
              delay == IF scaled < 30000 THEN scaled ELSE 30000
          IN  stream' = [stream EXCEPT !.open = @ \ {eventSource},
                                       !.eventSourceRef = 0,
                                       !.reconnectAttemptsRef = @ + 1,
                                       !.timers = @ \cup {[id |-> id, delay |-> delay]},
                                       !.reconnectTimeoutRef = id]
  /\ call' = [fn |-> "error"]
  /\ UNCHANGED <<pc, ret, storage, history, router>>

\* the callback of a pending timeout: connect() of the render that set it
TimerFires(timer) ==
  /\ timer \in stream.timers
  /\ stream' = connect([stream EXCEPT !.timers = @ \ {timer}], TRUE)
  /\ call' = [fn |-> "timer"]
  /\ UNCHANGED <<pc, ret, storage, history, router>>

\* the effect's cleanup when the component unmounts
Unmount ==
  /\ stream.mounted
  /\ stream' = [cleanup(stream) EXCEPT !.mounted = FALSE]
  /\ call' = [fn |-> "unmount"]
  /\ UNCHANGED <<pc, ret, storage, history, router>>

NextStream ==
  \/ \E enabled \in BOOLEAN : Render(enabled)
  \/ Reconnect
  \/ \E eventSource \in ObjectIds : ConnectedEvent(eventSource)
  \/ \E eventSource \in ObjectIds, data \in SyncTimestamps \cup {"malformed"} :
       AccountUpdateEvent(eventSource, data)
  \/ \E eventSource \in ObjectIds : ErrorEvent(eventSource)
  \/ \E timer \in stream.timers : TimerFires(timer)
  \/ Unmount

\* setTimeout: a timeout that is set and not cleared fires
SpecStream ==
  /\ InitStream
  /\ [][NextStream]_vars
  /\ WF_vars(\E timer \in stream.timers : TimerFires(timer))

----------------------------------------------------------------------------
(* api/storage: the cash flows of a tracker and its deposit schedule *)

\* crypto.randomUUID() gives an id that no cash flow of the list has
maxId(cashFlows) ==
  IF cashFlows = <<>> THEN 0
  ELSE cashFlows[CHOOSE i \in DOMAIN cashFlows :
                   \A j \in DOMAIN cashFlows : cashFlows[j].id <= cashFlows[i].id].id

\* push with a new id, sort by date, save: for a tracker that exists
addCashFlow(trackers, trackerId, cashFlow) ==
  LET tracker == getTrackerById(trackers, trackerId)[1]
      newCashFlow == [id |-> maxId(tracker.cashFlows) + 1, date |-> cashFlow.date,
                      amount |-> cashFlow.amount, type |-> cashFlow.type,
                      source |-> cashFlow.source]
  IN  saveTracker(trackers,
        [tracker EXCEPT !.cashFlows = sortByDate(Append(@, newCashFlow))])

\* a bug: the scheduled cash flows of the previous schedule are kept
regenerateScheduledCashFlowsNoFilter(trackers, trackerId) ==
  LET tracker == getTrackerById(trackers, trackerId)[1]
      kept == tracker.cashFlows
      generated == generateScheduledCashFlows(tracker.config.depositSchedule[1],
                     tracker.config.startDate, tracker.config.endDate)
      scheduledCashFlows == [k \in DOMAIN generated |->
                               [generated[k] EXCEPT !.id = maxId(kept) + k]]
  IN  saveTracker(trackers,
        [tracker EXCEPT !.cashFlows =
           IF hasDepositSchedule(tracker.config)
           THEN sortByDate(kept \o scheduledCashFlows)
           ELSE kept])

\* filter out the scheduled flows, append the generated ones and sort by date
\* if the schedule is enabled, save: for a tracker that exists
regenerateScheduledCashFlows(trackers, trackerId) ==
  LET tracker == getTrackerById(trackers, trackerId)[1]
      kept == SelectSeq(tracker.cashFlows, LAMBDA cf : cf.source # "scheduled")
      generated == generateScheduledCashFlows(tracker.config.depositSchedule[1],
                     tracker.config.startDate, tracker.config.endDate)
      scheduledCashFlows == [k \in DOMAIN generated |->
                               [generated[k] EXCEPT !.id = maxId(kept) + k]]
  IN  saveTracker(trackers,
        [tracker EXCEPT !.cashFlows =
           IF hasDepositSchedule(tracker.config)
           THEN sortByDate(kept \o scheduledCashFlows)
           ELSE kept])

\* the configs of the tracker form: a tracker of 2025-10-09 that ends the next
\* day or a week later, with or without a deposit schedule
ScheduleConfigs ==
  [id : TrackerIds, startDate : {0}, endDate : {1, 7},
   depositSchedule :
     {Null} \cup {<<s>> : s \in [enabled : BOOLEAN, frequency : {"daily", "weekly"},
                                 amount : {0, 100}, startDate : {NullDate},
                                 endDate : {NullDate}]}]

InitCashFlows ==
  /\ pc = "call"
  /\ call = [fn |-> "createTracker"]
  /\ ret = NoReturn
  /\ \E config \in ScheduleConfigs : storage = createTracker(NoTrackers, config)
  /\ history = NoCalls
  /\ stream = NoStream
  /\ router = NoRouter

\* App.handleAddCashFlow: a manual deposit or withdrawal
AddCashFlow(trackerId, cashFlow) ==
  /\ getTrackerById(storage, trackerId) # Null
  /\ Len(SelectSeq(getTrackerById(storage, trackerId)[1].cashFlows,
                   LAMBDA cf : cf.source = "manual")) < MaxFlows
  /\ storage' = addCashFlow(storage, trackerId, cashFlow)
  /\ call' = [fn |-> "addCashFlow"]
  /\ UNCHANGED <<pc, ret, history, stream, router>>

\* App.handleConfigUpdate: updateTrackerConfig, then regenerateScheduledCashFlows
HandleConfigUpdate(trackerId, config) ==
  /\ getTrackerById(storage, trackerId) # Null
  /\ storage' = regenerateScheduledCashFlows(
                  updateTrackerConfig(storage, trackerId, config), trackerId)
  /\ call' = [fn |-> "handleConfigUpdate"]
  /\ UNCHANGED <<pc, ret, history, stream, router>>

RegenerateScheduledCashFlows(trackerId) ==
  /\ getTrackerById(storage, trackerId) # Null
  /\ storage' = regenerateScheduledCashFlows(storage, trackerId)
  /\ call' = [fn |-> "regenerateScheduledCashFlows"]
  /\ UNCHANGED <<pc, ret, history, stream, router>>

NextCashFlows ==
  \E trackerId \in TrackerIds :
    \/ \E cashFlow \in [date : {0, 2}, amount : CashFlowAmounts,
                        type : {"deposit"}, source : {"manual"}] :
         AddCashFlow(trackerId, cashFlow)
    \/ \E config \in ScheduleConfigs : HandleConfigUpdate(trackerId, config)
    \/ RegenerateScheduledCashFlows(trackerId)

SpecCashFlows == InitCashFlows /\ [][NextCashFlows]_vars

----------------------------------------------------------------------------
(* The backend IBKR router (backend/src/routes/ibkr.ts) and IBKRService     *)
(* router.ibkrService is the number of the instance held, 0 for null;      *)
(* router.services lists the instances created so far: the number of their *)
(* 'accountUpdate' listeners and the state of their connection to TWS      *)
(* (api); router.sseClients is the set of open /stream responses.          *)

MaxServices == 2

SSEClients == {"res1", "res2"}

InitRouter ==
  /\ pc = "call"
  /\ call = [fn |-> "none"]
  /\ ret = NoReturn
  /\ storage = NoTrackers
  /\ history = NoCalls
  /\ stream = NoStream
  /\ router = [ibkrService |-> 0, services |-> <<>>, sseClients |-> {}]

\* POST /connect with host, port and clientId: a new instance replaces
\* ibkrService, gets the broadcasting listener and starts to connect
PostConnect ==
  /\ Len(router.services) < MaxServices
  /\ router' = [router EXCEPT
                  !.ibkrService = Len(router.services) + 1,
                  !.services = Append(@, [listeners |-> 1, api |-> "connecting"])]
  /\ call' = [fn |-> "connect"]
  /\ UNCHANGED <<pc, ret, storage, history, stream>>

\* EventName.connected of an instance's IBApi: isConnected = true and the
\* account updates are subscribed; the request answers 200
IBConnected(service) ==
  /\ service \in DOMAIN router.services
  /\ router.services[service].api = "connecting"
  /\ router' = [router EXCEPT !.services[service].api = "connected"]
  /\ call' = [fn |-> "connected"]
  /\ UNCHANGED <<pc, ret, storage, history, stream>>

\* EventName.error before the connection is made: the promise is rejected
\* and the request answers 500; ibkrService and the listener stay
IBConnectFails(service) ==
  /\ service \in DOMAIN router.services
  /\ router.services[service].api = "connecting"
  /\ router' = [router EXCEPT !.services[service].api = "failed"]
  /\ call' = [fn |-> "error"]
  /\ UNCHANGED <<pc, ret, storage, history, stream>>

\* POST /disconnect: the listeners of the instance held are removed, it
\* disconnects if it is connected, and ibkrService becomes null
PostDisconnect ==
  /\ router' = IF router.ibkrService = 0 THEN router
               ELSE [router EXCEPT
                       !.services[router.ibkrService] =
                          [listeners |-> 0,
                           api |-> IF @.api = "connected" THEN "disconnected" ELSE @.api],
                       !.ibkrService = 0]
  /\ call' = [fn |-> "disconnect"]
  /\ UNCHANGED <<pc, ret, storage, history, stream>>

\* TWS publishes an account value: every connected instance has subscribed
\* and emits 'accountUpdate', and each of its listeners writes the summary
\* to every SSE client (broadcastToClients); ret counts the writes per client
AccountUpdate ==
  /\ \E service \in DOMAIN router.services : router.services[service].api = "connected"
  /\ LET emitting == {service \in DOMAIN router.services :
                        router.services[service].api = "connected"}
         \* an instance has the one listener of /connect, or none
         broadcasting == {service \in emitting : router.services[service].listeners > 0}
     IN  /\ ret' = [client \in router.sseClients |-> Cardinality(broadcasting)]
         /\ call' = [fn |-> "accountUpdate", broadcasting |-> broadcasting]
  /\ UNCHANGED <<pc, storage, history, stream, router>>

\* GET /stream: the response joins sseClients
GetStream(client) ==
  /\ client \notin router.sseClients
  /\ router' = [router EXCEPT !.sseClients = @ \cup {client}]
  /\ call' = [fn |-> "stream"]
  /\ UNCHANGED <<pc, ret, storage, history, stream>>

\* req.on('close'): the response leaves sseClients
CloseStream(client) ==
  /\ client \in router.sseClients
  /\ router' = [router EXCEPT !.sseClients = @ \ {client}]
  /\ call' = [fn |-> "close"]
  /\ UNCHANGED <<pc, ret, storage, history, stream>>

NextRouter ==
  \/ PostConnect
  \/ \E service \in 1 .. MaxServices : IBConnected(service)
  \/ \E service \in 1 .. MaxServices : IBConnectFails(service)
  \/ PostDisconnect
  \/ AccountUpdate
  \/ \E client \in SSEClients : GetStream(client)
  \/ \E client \in SSEClients : CloseStream(client)

SpecRouter == InitRouter /\ [][NextRouter]_vars

----------------------------------------------------------------------------
(* Vocabulary of the properties *)

\* the business days d with lo < d <= hi
BusinessDaysIn(lo, hi) == Cardinality({d \in (lo + 1) .. hi : getDay(d) \in 1 .. 5})

RECURSIVE SumOver(_, _)
SumOver(f, S) ==
  IF S = {} THEN Num(0)
  ELSE LET x == CHOOSE y \in S : TRUE IN QAdd(f[x], SumOver(f, S \ {x}))

\* deposits minus withdrawals of the flows dated in (lo, hi]; lo = -1 means no lower limit
NetCashFlow(cashFlows, lo, hi) ==
  SumOver([i \in DOMAIN cashFlows |->
             IF cashFlows[i].type = "deposit" THEN Num(cashFlows[i].amount)
             ELSE Num(-cashFlows[i].amount)],
          {i \in DOMAIN cashFlows : lo < cashFlows[i].date /\ cashFlows[i].date <= hi})

Done(fn) == pc = "done" /\ call.fn = fn

----------------------------------------------------------------------------
(* C1: calculateProjection's first value is startingAmount plus the signed *)
(* flows dated on or before the first date; every later value is the       *)
(* previous value grown by (1 + dailyRate)^(business days of the gap) plus *)
(* the signed flows dated in the gap (after the previous date, up to the   *)
(* current one): growth first, then the flows, and a gap without business  *)
(* days applies no growth.                                                 *)
C1_Recurrence ==
  Done("calculateProjection") =>
    LET base == call.baseData
        value(i) == ret[base[i]]
    IN  /\ DOMAIN ret = {base[i] : i \in DOMAIN base}
        /\ base # <<>> =>
             value(1) = QAdd(call.startingAmount, NetCashFlow(call.cashFlows, -1, base[1]))
        /\ \A i \in 2 .. Len(base) :
             /\ value(i) =
                  QAdd(QMul(value(i - 1),
                            QPow(QAdd(Num(1), call.growthRatePerDay),
                                 BusinessDaysIn(base[i - 1], base[i]))),
                       NetCashFlow(call.cashFlows, base[i - 1], base[i]))
             /\ BusinessDaysIn(base[i - 1], base[i]) = 0 =>
                  value(i) = QAdd(value(i - 1),
                                  NetCashFlow(call.cashFlows, base[i - 1], base[i]))

\* a call with a non-zero rate, a weekend gap that receives a flow and a
\* business-day gap that receives a withdrawal
C1_Witness ==
  /\ Done("calculateProjection")
  /\ call.growthRatePerDay # Num(0)
  /\ \E i, j \in 2 .. Len(call.baseData) :
       /\ countBusinessDays(call.baseData[i - 1], call.baseData[i]) = 0
       /\ countBusinessDays(call.baseData[j - 1], call.baseData[j]) > 0
       /\ \E f, g \in DOMAIN call.cashFlows :
            /\ call.baseData[i - 1] < call.cashFlows[f].date
            /\ call.cashFlows[f].date <= call.baseData[i]
            /\ call.baseData[j - 1] < call.cashFlows[g].date
            /\ call.cashFlows[g].date <= call.baseData[j]
            /\ call.cashFlows[g].type = "withdrawal"


----------------------------------------------------------------------------
\* the date reached by k successive steps of intervalDays business days
RECURSIVE MilestoneDate(_, _)
MilestoneDate(config, k) ==
  IF k = 0 THEN config.startDate
  ELSE addBusinessDays(MilestoneDate(config, k - 1), config.intervalDays)

\* the amount of the data point dated d
AmountOn(projectedData, d) ==
  LET i == CHOOSE j \in DOMAIN projectedData : projectedData[j].date = d
  IN  projectedData[i].amount

(* C2: growth compounds only at whole multiples of intervalDays business   *)
(* days from the start: for every k >= 1 whose k-th milestone date is on   *)
(* or before the end date, the projected amount on that date is            *)
(* startingAmount * (1 + increasePercent/100)^k, and no compounding        *)
(* milestone (any but the starting one) is created for a date after the    *)
(* end date.                                                               *)
C2_MilestoneAmounts ==
  Done("calculateProjectedValues") =>
    LET config == call.config
        milestones == growthMilestones(config, call.endDate)
    IN  /\ \A k \in 1 .. (2 * MaxDay + 2) :
             MilestoneDate(config, k) <= call.endDate =>
               /\ \E j \in DOMAIN ret : ret[j].date = MilestoneDate(config, k)
               /\ AmountOn(ret, MilestoneDate(config, k)) =
                    QMul(config.startingAmount, QPow(growthFactor(config), k))
        /\ \A i \in 2 .. Len(milestones) : milestones[i].date <= call.endDate
        /\ Len(milestones) =
             1 + Cardinality({k \in 1 .. (2 * MaxDay + 2) :
                                MilestoneDate(config, k) <= call.endDate})

\* a scenario whose second milestone is reached over a weekend and whose
\* next one would fall after the end date
C2_Witness ==
  /\ Done("calculateProjectedValues")
  /\ call.config.projectedIncreasePercent # 0
  /\ MilestoneDate(call.config, 2) <= call.endDate
  /\ MilestoneDate(call.config, 3) > call.endDate
  /\ MilestoneDate(call.config, 2) < call.endDate
  /\ MilestoneDate(call.config, 2) - call.config.startDate > 2 * call.config.intervalDays

(* C3: for start <= end the result has exactly one point per calendar day  *)
(* from the start date to the end date inclusive, in ascending order with  *)
(* dayNumber 0, 1, 2, ..., and the first point is dated on the start date  *)
(* with amount startingAmount.                                             *)
C3_DenseDailySeries ==
  (Done("calculateProjectedValues") /\ call.config.startDate <= call.endDate) =>
    /\ Len(ret) = call.endDate - call.config.startDate + 1
    /\ \A i \in DOMAIN ret :
         /\ ret[i].date = call.config.startDate + (i - 1)
         /\ ret[i].dayNumber = i - 1
    /\ ret[1].date = call.config.startDate
    /\ ret[1].amount = call.config.startingAmount

\* a one-day scenario (start = end) that yields its single point
C3_Witness ==
  /\ Done("calculateProjectedValues")
  /\ call.config.startDate = call.endDate
  /\ Len(ret) = 1
  /\ call.config.projectedIncreasePercent # 0


----------------------------------------------------------------------------
(* C4: for every actual series and every cash-flow list, also those whose  *)
(* neutralized values are zero or negative, the result of                  *)
(* calculateDrawdown has maxDrawdown >= currentDrawdown >= 0.              *)
C4_DrawdownOrder ==
  Done("calculateDrawdown") =>
    /\ QGe(ret.currentDrawdown, Num(0))
    /\ QGe(ret.maxDrawdown, ret.currentDrawdown)

\* the actual series with amount minus net cash flow (deposits +, withdrawals -)
\* dated on or before each point
NeutralizedData(actualData, cashFlows) ==
  LET sorted == sortByDate(actualData)
  IN  [i \in DOMAIN sorted |->
         [date |-> sorted[i].date,
          amount |-> Num(sorted[i].amount),
          adjustedAmount |-> QSub(Num(sorted[i].amount),
                                  NetCashFlow(cashFlows, -1, sorted[i].date))]]

(* C5: calculateDrawdown compares against the running peak the             *)
(* cash-flow-neutralized value of each point: amount minus the cumulative  *)
(* net cash flow dated on or before it, a deposit counting +amount and a   *)
(* withdrawal -amount according to its type.                               *)
C5_NeutralizedByType ==
  (Done("calculateDrawdown") /\ call.actualData # <<>>) =>
    ret = drawdownScan(NeutralizedData(call.actualData, call.cashFlows))

----------------------------------------------------------------------------
\* the cash-flow lists a caller of the estimator may hold
EstimatorCashFlowLists ==
  {s \in CashFlowLists : \A i \in DOMAIN s : s[i].date \in EstimatorDates}

\* the points in date order: a permutation of the argument with ascending dates
\* that keeps the given order among equal dates
SortedActual(actualData) ==
  LET n == Len(actualData)
      before(i, j) == \/ actualData[i].date < actualData[j].date
                      \/ (actualData[i].date = actualData[j].date /\ i < j)
      rank(i) == 1 + Cardinality({j \in 1 .. n : before(j, i)})
  IN  [k \in 1 .. n |-> actualData[CHOOSE i \in 1 .. n : rank(i) = k]]

\* the sum of the business days between consecutive points
TotalBusinessDays(sorted) ==
  LET days == [i \in 1 .. Len(sorted) - 1 |->
                 Num(BusinessDaysIn(sorted[i].date, sorted[i + 1].date))]
  IN  SumOver(days, DOMAIN days)[1]

RECURSIVE ProductOver(_, _)
ProductOver(f, S) ==
  IF S = {} THEN Num(1)
  ELSE LET x == CHOOSE y \in S : TRUE IN QMul(f[x], ProductOver(f, S \ {x}))

\* the product of the segment returns (q.amount - net flow in (p, q]) / p.amount
CumulativeReturn(sorted, cashFlows) ==
  LET seg == [i \in 1 .. Len(sorted) - 1 |->
                QDiv(QSub(Num(sorted[i + 1].amount),
                          NetCashFlow(cashFlows, sorted[i].date, sorted[i + 1].date)),
                     Num(sorted[i].amount))]
  IN  ProductOver(seg, DOMAIN seg)

\* (1 + dailyRate)^days = target, for dailyRate = base^(1/root) - 1 and
\* target >= 0: both sides raised to the power root
CompoundsTo(dailyRate, days, target) ==
  /\ QGe(dailyRate.base, Num(0))
  /\ QPow(dailyRate.base, days) = QPow(target, dailyRate.root)

AllPositive(sorted) == \A i \in DOMAIN sorted : sorted[i].amount > 0

(* C6: the estimator's rate is cash-flow neutral: with the points sorted   *)
(* by date, (1 + dailyRate)^(sum of the business days between consecutive  *)
(* points) equals the product of the segment returns                       *)
(* (q.amount - net cash flow in (p, q]) / p.amount.                        *)
C6_CashFlowNeutralRate ==
  (/\ Done("calculateActualAverageIncrease")
   /\ ret # Null
   /\ AllPositive(call.actualData)
   /\ TotalBusinessDays(SortedActual(call.actualData)) > 0)
  => \A cashFlows \in EstimatorCashFlowLists :
       LET sorted == SortedActual(call.actualData)
       IN  QGt(CumulativeReturn(sorted, cashFlows), Num(0)) =>
             CompoundsTo(ret[1].dailyRate, TotalBusinessDays(sorted),
                         CumulativeReturn(sorted, cashFlows))

(* C7: intervalPercentage is the per-business-day rate of the observed     *)
(* span re-compounded over intervalDays:                                   *)
(* (1 + intervalPercentage/100)^(business days observed) equals            *)
(* (cumulative return)^intervalDays, so it differs from the raw cumulative *)
(* percentage unless the span is exactly intervalDays (or nothing grew).   *)
C7_Recompounded ==
  (/\ Done("calculateActualAverageIncrease")
   /\ ret # Null
   /\ AllPositive(call.actualData)
   /\ TotalBusinessDays(SortedActual(call.actualData)) > 0)
  => LET sorted == SortedActual(call.actualData)
     IN  QPow(QAdd(Num(1), QDiv(ret[1].intervalPercentage, Num(100))),
              TotalBusinessDays(sorted))
         = QPow(CumulativeReturn(sorted, <<>>), call.intervalDays)

(* C8: the estimator returns null whenever fewer than two points are given *)
(* or the earliest-dated amount is <= 0, and a non-null result for two or  *)
(* more points with a positive earliest amount over a positive number of   *)
(* elapsed business days.                                                  *)
C8_NoResultPreconditions ==
  Done("calculateActualAverageIncrease") =>
    LET sorted == SortedActual(call.actualData)
    IN  /\ Len(call.actualData) < 2 => ret = Null
        /\ (Len(call.actualData) >= 1 /\ sorted[1].amount <= 0) => ret = Null
        /\ (/\ Len(call.actualData) >= 2
            /\ sorted[1].amount > 0
            /\ TotalBusinessDays(sorted) > 0) => ret # Null

\* a non-null result for points given latest first, the latest amount being 0
C8_Witness ==
  /\ Done("calculateActualAverageIncrease")
  /\ Len(call.actualData) = 2
  /\ call.actualData[1].date > call.actualData[2].date
  /\ call.actualData[1].amount = 0
  /\ ret # Null

(* C9: when the total elapsed business days over the sorted points is zero *)
(* (two points on one date, or points a weekend apart), the estimator      *)
(* returns null.                                                           *)
C9_NoElapsedDaysNoResult ==
  (/\ Done("calculateActualAverageIncrease")
   /\ Len(call.actualData) >= 2
   /\ TotalBusinessDays(SortedActual(call.actualData)) <= 0)
  => ret = Null

(* C10: calculateVariance compares the actual value with the projection    *)
(* adjusted for the cash flows dated on or before the given date:          *)
(* absolute = actual - (projected + net cash flow up to the date), and     *)
(* percentage = absolute / that adjusted projection * 100 when it is > 0.  *)
C10_VarianceWithCashFlows ==
  Done("calculateVariance") =>
    \A date \in Dates, cashFlows \in CashFlowLists :
      LET projectedWithCashFlows ==
            QAdd(call.projected, NetCashFlow(cashFlows, -1, date))
      IN  /\ ret.absolute = QSub(call.actual, projectedWithCashFlows)
          /\ QGt(projectedWithCashFlows, Num(0)) =>
               ret.percentage =
                 QMul(QDiv(QSub(call.actual, projectedWithCashFlows),
                           projectedWithCashFlows), Num(100))

----------------------------------------------------------------------------
\* the flows of a list dated in (lo, hi]
FlowsWithin(cashFlows, lo, hi) ==
  SelectSeq(cashFlows, LAMBDA cf : lo < cf.date /\ cf.date <= hi)

(* C11: calculateReturn adjusts the start value by the net cash flow of the *)
(* flows dated after startDate and on or before endDate, a deposit counting *)
(* +amount and a withdrawal -amount by its type, and returns                *)
(* (endValue - adjustedStart) / adjustedStart * 100 (for a positive         *)
(* adjustedStart); the flows dated outside that range do not change the     *)
(* result.                                                                  *)
C11_ReturnNetOfFlows ==
  Done("calculateReturn") =>
    LET adjustedStart ==
          QAdd(call.startValue, NetCashFlow(call.cashFlows, call.startDate, call.endDate))
    IN  /\ QGt(adjustedStart, Num(0)) =>
             ret = QMul(QDiv(QSub(call.endValue, adjustedStart), adjustedStart), Num(100))
        /\ ret = calculateReturn(call.startValue, call.endValue,
                                 FlowsWithin(call.cashFlows, call.startDate, call.endDate),
                                 call.startDate, call.endDate)

----------------------------------------------------------------------------
(* C12: every ratio the engine returns is a finite number: the percentage   *)
(* of calculateVariance, the result of calculateReturn, maxDrawdown and     *)
(* currentDrawdown of calculateDrawdown, the winRate of calculateWinRate    *)
(* and the rate of calculateActualAverageIncrease (a root of a finite,      *)
(* non-negative base, or no result); none is NaN or +/-Infinity.            *)
C12_FiniteRatios ==
  /\ Done("calculateVariance") => IsFinite(ret.percentage)
  /\ Done("calculateReturn") => IsFinite(ret)
  /\ Done("calculateDrawdown") =>
       IsFinite(ret.maxDrawdown) /\ IsFinite(ret.currentDrawdown)
  /\ Done("calculateWinRate") => IsFinite(ret.winRate)
  /\ Done("calculateActualAverageIncrease") =>
       \/ ret = Null
       \/ /\ IsFinite(ret[1].dailyRate.base)
          /\ QGe(ret[1].dailyRate.base, Num(0))
          /\ IsFinite(ret[1].intervalPercentage)

----------------------------------------------------------------------------
\* the recognized market holidays among CalendarDates: Monday 2025-01-20,
\* Martin Luther King Jr. Day (3rd Monday of January)
MarketHolidays == {MLKWeekStart + 3}

\* neither Saturday/Sunday nor a recognized market holiday
IsMarketDay(d) == getDay(d) \in 1 .. 5 /\ d \notin MarketHolidays

\* the number of market days d with lo < d <= hi
MarketDaysIn(lo, hi) == Cardinality({d \in (lo + 1) .. hi : IsMarketDay(d)})

(* C13: a date counts as a business day only if it is neither a Saturday or *)
(* Sunday nor a recognized market holiday: countBusinessDays counts exactly *)
(* the other days, and addBusinessDays(date, n) for n >= 1 lands on the     *)
(* n-th such day after date; so countBusinessDays(Fri 2025-01-17, Tue       *)
(* 2025-01-21) = 1 and addBusinessDays(2025-01-17, 1) is 2025-01-21.        *)
C13_HolidaysAreNoBusinessDays ==
  /\ Done("countBusinessDays") =>
       /\ ret = MarketDaysIn(call.startDate, call.endDate)
       /\ (call.startDate = MLKWeekStart /\ call.endDate = MLKWeekStart + 4) => ret = 1
  /\ (Done("addBusinessDays") /\ call.businessDays >= 1) =>
       /\ IsMarketDay(ret)
       /\ MarketDaysIn(call.date, ret) = call.businessDays
       /\ (call.date = MLKWeekStart /\ call.businessDays = 1) => ret = MLKWeekStart + 4

(* C14: countBusinessDays(start, end) is the number of business days d      *)
(* (neither weekend nor recognized holiday) with start < d <= end; it is 0  *)
(* whenever end <= start, and for start <= b <= end it is the sum of        *)
(* countBusinessDays(start, b) and countBusinessDays(b, end).               *)
C14_CountHalfOpenAdditive ==
  Done("countBusinessDays") =>
    /\ ret = MarketDaysIn(call.startDate, call.endDate)
    /\ call.endDate <= call.startDate => ret = 0
    /\ \A b \in call.startDate .. call.endDate :
         ret = countBusinessDays(call.startDate, b) + countBusinessDays(b, call.endDate)

(* C15: addBusinessDays(date, 0) returns date itself, also on a weekend or  *)
(* holiday; for n >= 1 it returns a date strictly after the input that is   *)
(* itself a business day, neither a weekend day nor a recognized holiday.   *)
C15_LandsOnBusinessDay ==
  Done("addBusinessDays") =>
    /\ call.businessDays = 0 => ret = call.date
    /\ call.businessDays >= 1 => (ret > call.date /\ IsMarketDay(ret))

----------------------------------------------------------------------------
\* the observed calls of the generator and of the compositor
PureCalls ==
  {i \in DOMAIN history :
     history[i].call.fn \in {"calculateProjectedValues", "calculateProjection"}}

----------------------------------------------------------------------------
\* the first base date on or after d: the point at which a flow dated d is applied
CoveringPoint(baseData, d) ==
  LET later == {baseData[i] : i \in {k \in DOMAIN baseData : baseData[k] >= d}}
  IN  CHOOSE b \in later : \A c \in later : b <= c

\* one flow dated on the later flow's date that carries the net amount of the two
PreSummed(f1, f2) ==
  LET signed(cf) == IF cf.type = "deposit" THEN cf.amount ELSE -cf.amount
      net == signed(f1) + signed(f2)
  IN  [date |-> f2.date, amount |-> Abs(net),
       type |-> IF net >= 0 THEN "deposit" ELSE "withdrawal"]

(* C17: with a non-zero daily rate and two cash flows dated d1 < d2, the    *)
(* value at a base date b >= d2 exceeds the value obtained from one         *)
(* pre-summed flow dated d2 by the growth earned on the earlier flow:       *)
(* a1 * ((1 + rate)^k - 1) * (1 + rate)^(business days from the point       *)
(* covering d2 to b), k being countBusinessDays between the base points     *)
(* covering d1 and d2; so the two values are equal exactly when k = 0.      *)
C17_PreSummedFlowLosesGrowth ==
  (/\ Done("calculateProjection")
   /\ call.growthRatePerDay # Num(0)
   /\ Len(call.cashFlows) = 2
   /\ call.cashFlows[1].date < call.cashFlows[2].date) =>
    LET base == call.baseData
        f1 == call.cashFlows[1]
        f2 == call.cashFlows[2]
        a1 == IF f1.type = "deposit" THEN Num(f1.amount) ELSE Num(-f1.amount)
        g == QAdd(Num(1), call.growthRatePerDay)
        one == calculateProjection(base, call.startingAmount, call.growthRatePerDay,
                                   <<PreSummed(f1, f2)>>)
    IN  \A i \in DOMAIN base :
          base[i] >= f2.date =>
            LET p1 == CoveringPoint(base, f1.date)
                p2 == CoveringPoint(base, f2.date)
                k == BusinessDaysIn(p1, p2)
                earned == QMul(a1, QSub(QPow(g, k), Num(1)))
            IN  /\ QSub(ret[base[i]], one[base[i]]) =
                     QMul(earned, QPow(g, BusinessDaysIn(p2, base[i])))
                /\ (ret[base[i]] = one[base[i]]) <=> (k = 0)

\* two flows applied at base points that are a business day apart, and a
\* later base date that is grown once more
C17_Witness ==
  /\ Done("calculateProjection")
  /\ call.growthRatePerDay # Num(0)
  /\ Len(call.cashFlows) = 2
  /\ call.cashFlows[1].date < call.cashFlows[2].date
  /\ \E i \in DOMAIN call.baseData :
       /\ call.baseData[i] >= call.cashFlows[2].date
       /\ BusinessDaysIn(CoveringPoint(call.baseData, call.cashFlows[1].date),
                         CoveringPoint(call.baseData, call.cashFlows[2].date)) > 0
       /\ BusinessDaysIn(CoveringPoint(call.baseData, call.cashFlows[2].date),
                         call.baseData[i]) > 0

----------------------------------------------------------------------------
(* C18: calculateProjectedValues returns a flat line, every amount equal to *)
(* startingAmount, whenever the rate is 0 and whenever the first milestone  *)
(* (the start advanced by intervalDays business days) falls after the end   *)
(* date.                                                                    *)
C18_FlatLine ==
  (/\ Done("calculateProjectedValues")
   /\ \/ call.config.projectedIncreasePercent = 0
      \/ MilestoneDate(call.config, 1) > call.endDate) =>
    \A i \in DOMAIN ret : ret[i].amount = call.config.startingAmount

\* a growing scenario that ends, after several daily points, before its
\* first milestone
C18_Witness ==
  /\ Done("calculateProjectedValues")
  /\ call.config.projectedIncreasePercent # 0
  /\ MilestoneDate(call.config, 1) > call.endDate
  /\ Len(ret) > 2
  /\ \E i \in DOMAIN ret : getDay(ret[i].date) \in 1 .. 5 /\ i > 1

----------------------------------------------------------------------------
\* the stored points of a tracker, as <<date, amount>> pairs
PointsOf(trackers, id) ==
  IF getTrackerById(trackers, id) = Null THEN {}
  ELSE LET data == getTrackerById(trackers, id)[1].actualData
       IN  {<<data[i].date, data[i].amount>> : i \in DOMAIN data}

\* every stored list is strictly ascending by date: sorted, one point per date
OnePointPerDateSorted ==
  \A t \in DOMAIN storage :
    \A i \in 1 .. Len(storage[t].actualData) - 1 :
      storage[t].actualData[i].date < storage[t].actualData[i + 1].date

\* what a call does to the stored points of its tracker
WriteEffect ==
  LET before == PointsOf(storage, call'.trackerId)
      after == PointsOf(storage', call'.trackerId)
      others == {p \in before : p[1] # call'.date}
  IN  /\ ret' = TrackerNotFound => after = before
      /\ (ret' = Undefined /\ call'.fn = "deleteActualDataPoint") => after = others
      /\ (ret' = Undefined /\ call'.fn # "deleteActualDataPoint") =>
           after = others \cup {<<call'.date, call'.amount>>}

(* C19: after any sequence of addActualDataPoint, updateActualDataPoint,    *)
(* deleteActualDataPoint and live pushes, the stored actualData is sorted   *)
(* ascending by date with at most one point per date; a write leaves        *)
(* exactly its amount for its date, a delete leaves no point for its date,  *)
(* and neither changes the points of the other dates.                       *)
C19_OnePointPerDate == []OnePointPerDateSorted /\ [][WriteEffect]_vars

\* a same-day rewrite of the earliest of three stored dates, which the push
\* appends last and the sort moves to the front
C19_Witness ==
  /\ pc = "done"
  /\ call.fn \in {"updateActualDataPoint", "handlePortfolioUpdate"}
  /\ ret = Undefined
  /\ getTrackerById(storage, call.trackerId) # Null
  /\ LET data == getTrackerById(storage, call.trackerId)[1].actualData
     IN  /\ Len(data) = 3
         /\ data[1] = [date |-> call.date, amount |-> call.amount]

----------------------------------------------------------------------------
\* the actual points whose date has a projected point
MatchedPoints(actualData, projectedData) ==
  {i \in DOMAIN actualData :
     \E j \in DOMAIN projectedData : projectedData[j].date = actualData[i].date}

\* the matched points at or above the projected amount of their date
WinningPoints(actualData, projectedData) ==
  {i \in MatchedPoints(actualData, projectedData) :
     \E j \in DOMAIN projectedData :
       /\ projectedData[j].date = actualData[i].date
       /\ actualData[i].amount >= projectedData[j].amount}

(* C20: calculateWinRate counts exactly the actual points whose date has a  *)
(* projected point: total is their number, wins the number of those with    *)
(* actual.amount >= projected.amount, losses the rest, wins + losses =      *)
(* total; winRate is wins / total * 100, 0 when total is 0, and lies        *)
(* between 0 and 100.                                                       *)
C20_WinRateCounts ==
  Done("calculateWinRate") =>
    LET matched == MatchedPoints(call.actualData, call.projectedData)
        winning == WinningPoints(call.actualData, call.projectedData)
    IN  /\ ret.total = Cardinality(matched)
        /\ ret.wins = Cardinality(winning)
        /\ ret.losses = Cardinality(matched \ winning)
        /\ ret.wins + ret.losses = ret.total
        /\ ret.total = 0 => ret.winRate = Num(0)
        /\ ret.total > 0 => ret.winRate = Q(100 * ret.wins, ret.total)
        /\ QGe(ret.winRate, Num(0)) /\ QLe(ret.winRate, Num(100))

\* three actual points: a tie with the projection, a point below it, and a
\* point whose date has no projected point
C20_Witness ==
  /\ Done("calculateWinRate")
  /\ Len(call.actualData) = 3
  /\ ret.total = 2 /\ ret.wins = 1 /\ ret.losses = 1
  /\ \E i \in DOMAIN call.actualData : \E j \in DOMAIN call.projectedData :
       /\ call.projectedData[j].date = call.actualData[i].date
       /\ call.projectedData[j].amount = call.actualData[i].amount

----------------------------------------------------------------------------
\* the start advanced by k steps of the frequency
RECURSIVE DepositDate(_, _, _)
DepositDate(frequency, start, k) ==
  IF k = 0 THEN start
  ELSE LET previous == DepositDate(frequency, start, k - 1)
       IN  CASE frequency = "daily" -> previous + 1
             [] frequency = "weekly" -> previous + 7
             [] frequency = "biweekly" -> previous + 14
             [] frequency = "monthly" -> addMonths(previous)

(* C21: generateScheduledCashFlows returns no cash flow when the schedule   *)
(* is disabled or its amount is <= 0; otherwise the k-th element, k = 1, 2, *)
(* ..., is a scheduled deposit of the schedule amount dated at the schedule *)
(* start (the tracker's by default) advanced by k steps, for exactly the k  *)
(* whose date is on or before the schedule end; the ids are pairwise        *)
(* distinct and no deposit is dated on the start date itself.               *)
C21_ScheduledDeposits ==
  Done("generateScheduledCashFlows") =>
    LET s == call.schedule
        start == IF s.startDate # NullDate THEN s.startDate ELSE call.trackerStartDate
        end == IF s.endDate # NullDate THEN s.endDate ELSE call.trackerEndDate
    IN  IF ~s.enabled \/ s.amount <= 0 THEN ret = <<>>
        ELSE /\ \A k \in DOMAIN ret :
                  /\ ret[k].date = DepositDate(s.frequency, start, k)
                  /\ ret[k].date <= end
                  /\ ret[k].date # start
                  /\ ret[k].type = "deposit" /\ ret[k].source = "scheduled"
                  /\ ret[k].amount = s.amount
             /\ DepositDate(s.frequency, start, Len(ret) + 1) > end
             /\ \A j, k \in DOMAIN ret : j # k => ret[j].id # ret[k].id

----------------------------------------------------------------------------
\* the number of the last milestone dated on or before d (0 is the start)
RECURSIVE LastMilestone(_, _, _)
LastMilestone(config, d, k) ==
  IF MilestoneDate(config, k + 1) <= d THEN LastMilestone(config, d, k + 1) ELSE k

\* startingAmount * (1 + increasePercent / 100)^k
MilestoneAmount(config, k) == QMul(config.startingAmount, QPow(growthFactor(config), k))

(* C22: between two consecutive milestones the projected amount is the      *)
(* linear interpolation of the two milestone amounts by (business days      *)
(* since the left milestone) / (business days between the milestones);      *)
(* after the last milestone on or before the end date it stays at that      *)
(* milestone's amount; every daily value lies between its two bracketing    *)
(* milestone amounts, and the series never rises from one day to the next   *)
(* for a negative increasePercent and never falls for a positive one.       *)
C22_LinearInterpolation ==
  (Done("calculateProjectedValues") /\ call.config.startDate <= call.endDate) =>
    LET config == call.config
        last == LastMilestone(config, call.endDate, 0)
    IN  /\ \A i \in DOMAIN ret :
             LET d == ret[i].date
                 k == LastMilestone(config, d, 0)
                 left == MilestoneAmount(config, k)
                 right == MilestoneAmount(config, k + 1)
                 between == BusinessDaysIn(MilestoneDate(config, k),
                                           MilestoneDate(config, k + 1))
                 progress == IF between > 0
                             THEN Q(BusinessDaysIn(MilestoneDate(config, k), d), between)
                             ELSE Num(0)
             IN  IF k = last THEN ret[i].amount = left
                 ELSE /\ ret[i].amount = QAdd(left, QMul(QSub(right, left), progress))
                      /\ \/ QLe(left, ret[i].amount) /\ QLe(ret[i].amount, right)
                         \/ QLe(right, ret[i].amount) /\ QLe(ret[i].amount, left)
        /\ \A i \in 1 .. Len(ret) - 1 :
             /\ config.projectedIncreasePercent < 0 => QGe(ret[i].amount, ret[i + 1].amount)
             /\ config.projectedIncreasePercent > 0 => QLe(ret[i].amount, ret[i + 1].amount)

\* a shrinking scenario with a day strictly inside an interval that spans a
\* weekend, and days after the last milestone
C22_Witness ==
  /\ Done("calculateProjectedValues")
  /\ call.config.projectedIncreasePercent < 0
  /\ \E i \in DOMAIN ret :
       LET k == LastMilestone(call.config, ret[i].date, 0)
       IN  /\ MilestoneDate(call.config, k + 1) <= call.endDate
           /\ BusinessDaysIn(MilestoneDate(call.config, k), ret[i].date) > 0
           /\ isWeekend(ret[i].date)
  /\ ret[Len(ret)].date > MilestoneDate(call.config, LastMilestone(call.config, call.endDate, 0))

----------------------------------------------------------------------------
\* the running peak of the neutralized series n up to its point i
RunningPeak(n, i) ==
  LET j == CHOOSE j \in 1 .. i : \A k \in 1 .. i : QGe(n[j].adjustedAmount, n[k].adjustedAmount)
  IN  n[j].adjustedAmount

\* the point that set the running peak of point i: the first one that reached it
PeakPoint(n, i) ==
  CHOOSE j \in 1 .. i : /\ n[j].adjustedAmount = RunningPeak(n, i)
                        /\ \A k \in 1 .. j - 1 : n[k].adjustedAmount # RunningPeak(n, i)

\* point i sets a new, strictly higher peak
SetsNewPeak(n, i) == i > 1 /\ QGt(n[i].adjustedAmount, RunningPeak(n, i - 1))

\* (peak - neutralized) / peak * 100 at point i, 0 for a non-positive peak
DrawdownAt(n, i) ==
  LET peak == RunningPeak(n, i)
  IN  IF QGt(peak, Num(0))
      THEN QMul(QDiv(QSub(peak, n[i].adjustedAmount), peak), Num(100))
      ELSE Num(0)

\* the points at which a Drawdown Period is opened: the first point with a
\* positive drawdown since its peak was set
OpeningPoints(n) ==
  {i \in DOMAIN n :
     /\ QGt(DrawdownAt(n, i), Num(0))
     /\ \A j \in PeakPoint(n, i) .. i - 1 : ~QGt(DrawdownAt(n, j), Num(0))}

\* the points that set a new peak after point i
LaterPeaks(n, i) == {j \in DOMAIN n : j > i /\ SetsNewPeak(n, j)}

\* the Drawdown Periods of the series, in the order of their opening points
DrawdownPeriodsOf(n, periods) ==
  /\ Len(periods) = Cardinality(OpeningPoints(n))
  /\ \A i \in OpeningPoints(n) :
       LET p == periods[Cardinality({j \in OpeningPoints(n) : j <= i})]
           later == LaterPeaks(n, i)
       IN  /\ p.startDate = n[PeakPoint(n, i)].date
           /\ p.recovered = (later # {})
           /\ p.endDate = IF later = {} THEN NullDate
                          ELSE n[CHOOSE j \in later : \A k \in later : j <= k].date

\* the largest drawdown observed and the first point at which it was observed
LargestDrawdown(n, result) ==
  LET trough == CHOOSE i \in DOMAIN n :
                  /\ \A k \in DOMAIN n : QGe(DrawdownAt(n, i), DrawdownAt(n, k))
                  /\ \A k \in 1 .. i - 1 : DrawdownAt(n, k) # DrawdownAt(n, i)
  IN  /\ result.maxDrawdown = DrawdownAt(n, trough)
      /\ IF QGt(DrawdownAt(n, trough), Num(0))
         THEN /\ result.maxDrawdownStartDate = n[PeakPoint(n, trough)].date
              /\ result.maxDrawdownEndDate = n[trough].date
         ELSE /\ result.maxDrawdownStartDate = NullDate
              /\ result.maxDrawdownEndDate = NullDate

(* C23: calculateDrawdown scans the date-sorted neutralized series in      *)
(* order: a Drawdown Period is opened at the first point whose drawdown    *)
(* from the running peak is positive, with startDate the date of that      *)
(* peak; it is closed, with endDate the date of the point that sets a new  *)
(* strictly higher peak and recovered = true, exactly when a new peak is   *)
(* set; maxDrawdown is the largest drawdown observed at any point and      *)
(* maxDrawdownStartDate / maxDrawdownEndDate are the peak date and the     *)
(* trough date at which it was observed.                                   *)
C23_DrawdownScan ==
  (Done("calculateDrawdown") /\ call.actualData # <<>>) =>
    LET n == NeutralizedData(call.actualData, call.cashFlows)
    IN  DrawdownPeriodsOf(n, ret.drawdownPeriods) /\ LargestDrawdown(n, ret)

\* the same for the series that the code neutralizes as the claim does: the
\* ones without a withdrawal
C23_DepositsOnly ==
  (\A i \in DOMAIN call.cashFlows : call.cashFlows[i].type = "deposit") => C23_DrawdownScan

----------------------------------------------------------------------------
\* the points dated on or before date
PointsUpTo(actualData, date) == {j \in DOMAIN actualData : actualData[j].date <= date}

\* the series of window w: for the points of actualData that have a point
\* dated on or before their date - w, in date order, the return from the
\* latest such point
RollingSeriesOf(series, actualData, cashFlows, w) ==
  LET entitled == {i \in DOMAIN actualData :
                     PointsUpTo(actualData, actualData[i].date - w) # {}}
  IN  /\ Len(series) = Cardinality(entitled)
      /\ \A i \in entitled :
           LET p == actualData[i]
               from == actualData[CHOOSE j \in PointsUpTo(actualData, p.date - w) :
                         \A k \in PointsUpTo(actualData, p.date - w) :
                           actualData[k].date <= actualData[j].date]
               entry == series[Cardinality({k \in entitled :
                                              actualData[k].date <= p.date})]
           IN  /\ entry.date = p.date
               /\ entry.return = calculateReturn(Num(from.amount), Num(p.amount),
                                                 cashFlows, from.date, p.date)

(* C24: calculateRollingReturns returns a map with one series per          *)
(* requested window; for a window of w days the series has an entry for    *)
(* an actual point p, recorded against p's date, exactly when some actual  *)
(* point is dated on or before p.date - w calendar days, and its value is  *)
(* calculateReturn from the latest such point to p; with fewer than two    *)
(* actual points every window maps to an empty series.                     *)
C24_RollingReturns ==
  Done("calculateRollingReturns") =>
    /\ DOMAIN ret = {call.periods[k] : k \in DOMAIN call.periods}
    /\ \A w \in DOMAIN ret :
         IF Len(call.actualData) < 2 THEN ret[w] = <<>>
         ELSE RollingSeriesOf(ret[w], call.actualData, call.cashFlows, w)

\* two windows, one point with a lookback point exactly w days back, one
\* without any, and a cash flow inside the period
C24_Witness ==
  /\ Done("calculateRollingReturns")
  /\ Cardinality(DOMAIN ret) = 2
  /\ \E w \in DOMAIN ret :
       /\ Len(ret[w]) > 0 /\ Len(ret[w]) < Len(call.actualData)
       /\ \E i, j \in DOMAIN call.actualData :
            call.actualData[i].date = call.actualData[j].date - w
  /\ \E w \in DOMAIN ret : \E i \in DOMAIN ret[w] : ret[w][i].return # Num(0)
  /\ call.cashFlows # <<>>

----------------------------------------------------------------------------
PointSet(actualData) == {actualData[i] : i \in DOMAIN actualData}

\* the start and end points of the month numbered m, as sets of at most one point
MonthStartPoint(actualData, m) ==
  LET atStart == {p \in PointSet(actualData) : p.date <= MonthStart[m]}
      after == {p \in PointSet(actualData) : p.date > MonthStart[m]}
  IN  IF atStart # {} THEN {p \in atStart : \A q \in atStart : q.date <= p.date}
      ELSE {p \in after : \A q \in after : p.date <= q.date}

MonthEndPoint(actualData, m) ==
  LET atEnd == {p \in PointSet(actualData) : p.date < MonthStart[m + 1]}
  IN  {p \in atEnd : \A q \in atEnd : q.date <= p.date}

\* the months among the given ones that contribute a monthly return
ContributingMonths(actualData, months) ==
  {m \in months : \E s \in MonthStartPoint(actualData, m) :
                    \E e \in MonthEndPoint(actualData, m) : s.date # e.date}

MonthReturn(actualData, cashFlows, m) ==
  LET s == CHOOSE s \in MonthStartPoint(actualData, m) : TRUE
      e == CHOOSE e \in MonthEndPoint(actualData, m) : TRUE
  IN  calculateReturn(Num(s.amount), Num(e.amount), cashFlows, s.date, e.date)

\* best is the N highest and worst the N lowest of the returns of the given months
BestWorstOf(result, actualData, cashFlows, topN, months) ==
  LET M == ContributingMonths(actualData, months)
      n == IF topN < Cardinality(M) THEN topN ELSE Cardinality(M)
      r(m) == MonthReturn(actualData, cashFlows, m)
      Descending == {o \in [1 .. Cardinality(M) -> M] :
                       /\ \A i, j \in DOMAIN o : i # j => o[i] # o[j]
                       /\ \A i \in 1 .. Cardinality(M) - 1 : QGe(r(o[i]), r(o[i + 1]))}
  IN  /\ Len(result.best) = n /\ Len(result.worst) = n
      /\ \E o \in Descending : \A i \in 1 .. n : result.best[i].return = r(o[i])
      /\ \E o \in Descending :
           \A i \in 1 .. n : result.worst[i].return = r(o[Cardinality(M) + 1 - i])
      /\ n > 0 => QGe(result.best[1].return, result.worst[1].return)

(* C25: getBestWorstPeriods considers every calendar month of the observed *)
(* span, from the month of the first actual point through the month of     *)
(* the last: each month for which a start point (last point at or before   *)
(* month start, else the first point after it) and an end point (last      *)
(* point at or before month end) exist with different dates contributes    *)
(* exactly one monthly return; best is the N highest of these returns in   *)
(* descending order and worst the N lowest with the lowest first, so       *)
(* best[0].return >= worst[0].return whenever both are non-empty.          *)
C25_BestWorstMonths ==
  (Done("getBestWorstPeriods") /\ call.actualData # <<>>) =>
    BestWorstOf(ret, call.actualData, call.cashFlows, call.topN,
                monthOf(call.actualData[1].date)
                  .. monthOf(call.actualData[Len(call.actualData)].date))

\* the same for the months after the month of the first point
C25_AfterFirstMonth ==
  (Done("getBestWorstPeriods") /\ Len(call.actualData) >= 2) =>
    BestWorstOf(ret, call.actualData, call.cashFlows, call.topN,
                (monthOf(call.actualData[1].date) + 1)
                  .. monthOf(call.actualData[Len(call.actualData)].date))

----------------------------------------------------------------------------
(* C26: addBusinessDays and countBusinessDays are inverse to each other:   *)
(* for every date d and every n >= 0,                                      *)
(* countBusinessDays(d, addBusinessDays(d, n)) = n, and addBusinessDays(d, *)
(* n) is the earliest date e with countBusinessDays(d, e) = n.             *)
C26_AddCountInverse ==
  Done("addBusinessDays") =>
    /\ countBusinessDays(call.date, ret) = call.businessDays
    /\ \A e \in (call.date - 7) .. (ret - 1) :
         countBusinessDays(call.date, e) # call.businessDays

(* C26 as amended: the same, addBusinessDays(d, n) being the earliest date *)
(* e on or after d with countBusinessDays(d, e) = n (every date before d   *)
(* counts 0 business days from d, as d does).                              *)
C26_AddCountInverseFromStart ==
  Done("addBusinessDays") =>
    /\ countBusinessDays(call.date, ret) = call.businessDays
    /\ \A e \in call.date .. (ret - 1) :
         countBusinessDays(call.date, e) # call.businessDays

\* business days added across a weekend: the result is a Monday or later and
\* a non-business day lies between the start and the result
C26_Witness ==
  /\ Done("addBusinessDays")
  /\ call.businessDays >= 2
  /\ \E e \in (call.date + 1) .. (ret - 1) : ~isBusinessDay(e)

----------------------------------------------------------------------------
(* C27: in every result of calculateDrawdown the drawdownPeriods list is   *)
(* in chronological order; every period except possibly the last has      *)
(* recovered = true and a non-null endDate later than its startDate; a     *)
(* period with recovered = false has endDate = null and can only be the    *)
(* last element; each period's drawdown is > 0; and maxDrawdown equals     *)
(* the maximum of the periods' drawdown values (0 when the list is empty). *)
C27_DrawdownPeriods ==
  Done("calculateDrawdown") =>
    LET periods == ret.drawdownPeriods
        n == Len(periods)
    IN  /\ \A k \in 1 .. n - 1 :
             /\ periods[k].startDate < periods[k + 1].startDate
             /\ periods[k].endDate <= periods[k + 1].startDate
        /\ \A k \in 1 .. n :
             /\ k < n => periods[k].recovered
             /\ periods[k].recovered =>
                  periods[k].endDate # NullDate /\ periods[k].endDate > periods[k].startDate
             /\ ~periods[k].recovered => periods[k].endDate = NullDate /\ k = n
             /\ QGt(periods[k].drawdown, Num(0))
        /\ IF n = 0 THEN ret.maxDrawdown = Num(0)
           ELSE /\ \E k \in 1 .. n : ret.maxDrawdown = periods[k].drawdown
                /\ \A k \in 1 .. n : QGe(ret.maxDrawdown, periods[k].drawdown)

\* a recovered period followed by an ongoing one that is not the deepest
C27_Witness ==
  /\ Done("calculateDrawdown")
  /\ Len(ret.drawdownPeriods) = 2
  /\ ret.drawdownPeriods[1].recovered
  /\ ~ret.drawdownPeriods[2].recovered
  /\ ret.maxDrawdown # ret.drawdownPeriods[2].drawdown
  /\ call.cashFlows # <<>>

----------------------------------------------------------------------------
\* a step of the hook keeps the backoff: an error sets one timeout of
\* min(1000 * 2^attempts, 30000) ms and counts itself, 'connected' resets the
\* count, nothing else changes it
BackoffStep ==
  LET attempts == stream.reconnectAttemptsRef
  IN  /\ call'.fn = "error" =>
           /\ \E t \in stream'.timers \ stream.timers :
                t.delay = IF attempts < 5 THEN 1000 * 2 ^ attempts ELSE 30000
           /\ stream'.reconnectAttemptsRef = attempts + 1
      /\ call'.fn = "connected" => stream'.reconnectAttemptsRef = 0
      /\ call'.fn \notin {"error", "connected"} => stream'.reconnectAttemptsRef = attempts

\* a disabled or unmounted hook opens no connection and sets no timeout
QuietStep ==
  (~stream'.enabled \/ ~stream'.mounted) =>
    stream'.open \subseteq stream.open /\ stream'.timers \subseteq stream.timers

(* C28: for the useIBKRStream hook, under any interleaving of              *)
(* enable/disable, connect, 'connected' events, error events and timer     *)
(* firings: at most one EventSource is open and at most one reconnect      *)
(* timer is pending at any time; after an error while enabled a reconnect  *)
(* is eventually attempted, with delay min(1000 * 2^attempts, 30000) ms    *)
(* where attempts counts the errors since the last 'connected' event; and  *)
(* once the hook is disabled or unmounted no connection stays open, no     *)
(* timer stays pending and no further reconnect happens.                   *)
C28_SingleConnectionWithBackoff ==
  /\ [](Cardinality(stream.open) <= 1 /\ Cardinality(stream.timers) <= 1)
  /\ []((~stream.enabled \/ ~stream.mounted) => (stream.open = {} /\ stream.timers = {}))
  /\ [][BackoffStep /\ QuietStep]_vars
  /\ (stream.timers # {}) ~>
       (stream.timers = {} /\ (stream.open # {} \/ ~stream.enabled \/ ~stream.mounted))

\* the sixth error in a row without a 'connected' event: the delay is capped
C28_Witness ==
  /\ call.fn = "error"
  /\ stream.enabled
  /\ stream.reconnectAttemptsRef = MaxAttempts
  /\ \E t \in stream.timers : t.delay = 30000

----------------------------------------------------------------------------
\* the cash flows of the tracker of TrackerIds in the given storage
CashFlowsOf(trackers) ==
  getTrackerById(trackers, CHOOSE id \in TrackerIds : TRUE)[1].cashFlows

\* the scheduled cash flows of a list without their ids, which are drawn anew
ScheduledOf(cashFlows) ==
  LET scheduled == SelectSeq(cashFlows, LAMBDA cf : cf.source = "scheduled")
  IN  [k \in DOMAIN scheduled |-> [date |-> scheduled[k].date,
                                   amount |-> scheduled[k].amount,
                                   type |-> scheduled[k].type]]

\* a call of regenerateScheduledCashFlows, directly or by handleConfigUpdate
RegenerateEffect ==
  call'.fn \in {"regenerateScheduledCashFlows", "handleConfigUpdate"} =>
    LET config == getTrackerById(storage', CHOOSE id \in TrackerIds : TRUE)[1].config
    IN  /\ SelectSeq(CashFlowsOf(storage'), LAMBDA cf : cf.source # "scheduled")
             = SelectSeq(CashFlowsOf(storage), LAMBDA cf : cf.source # "scheduled")
        /\ ScheduledOf(CashFlowsOf(storage'))
             = IF config.depositSchedule = Null \/ ~config.depositSchedule[1].enabled
               THEN <<>>
               ELSE ScheduledOf(generateScheduledCashFlows(config.depositSchedule[1],
                                  config.startDate, config.endDate))

(* C29: regenerateScheduledCashFlows leaves every cash flow whose source   *)
(* is not 'scheduled' unchanged, and afterwards the tracker's scheduled    *)
(* cash flows are exactly those that generateScheduledCashFlows produces   *)
(* for the current config (none when the schedule is absent or disabled);  *)
(* so calling it any number of times in a row never accumulates duplicate  *)
(* scheduled deposits, and the cash-flow list stays sorted by date.        *)
C29_RegenerateReplacesScheduled ==
  /\ [][RegenerateEffect]_vars
  /\ [](storage # NoTrackers => SortedByDate(CashFlowsOf(storage)))

\* regenerated after a change of the schedule, with a manual flow dated
\* between two scheduled deposits
C29_Witness ==
  /\ call.fn = "regenerateScheduledCashFlows"
  /\ storage # NoTrackers
  /\ \E i, j, k \in DOMAIN CashFlowsOf(storage) :
       /\ i < j /\ j < k
       /\ CashFlowsOf(storage)[i].source = "scheduled"
       /\ CashFlowsOf(storage)[j].source = "manual"
       /\ CashFlowsOf(storage)[k].source = "scheduled"
       /\ CashFlowsOf(storage)[i].date < CashFlowsOf(storage)[j].date

----------------------------------------------------------------------------
(* C30: in the backend IBKR router, after any sequence of POST /connect    *)
(* and POST /disconnect requests at most one IBKRService instance has an   *)
(* 'accountUpdate' listener that broadcasts to the SSE clients, namely the *)
(* instance held in ibkrService; an instance that was replaced by a later  *)
(* /connect or removed by /disconnect never broadcasts again, so each      *)
(* account update reaches every SSE client at most once.                   *)
C30_OneBroadcastingService ==
  /\ \A service \in DOMAIN router.services :
       router.services[service].listeners > 0 => service = router.ibkrService
  /\ call.fn = "accountUpdate" =>
       /\ call.broadcasting \subseteq {router.ibkrService}
       /\ \A client \in DOMAIN ret : ret[client] <= 1

====
